---- MODULE Spec2Model ----
(***************************************************************************)
(* Model of the gym-ticker history collector (the node script embedded in  *)
(* scripts/gym_history_schema.sql): collectGymHistory and trackTeamChanges *)
(* running as one InnoDB transaction per invocation against the tables     *)
(* gym (external), gym_history and gym_team_changes.                       *)
(*                                                                         *)
(* Time is in seconds.  A transaction reads from the consistent snapshot   *)
(* InnoDB establishes at its first read (the tables are ENGINE=InnoDB and  *)
(* the pool sets no isolation level, so the server default REPEATABLE READ *)
(* applies); DELETE is a locking read of the latest committed rows.        *)
(*                                                                         *)
(* Spec runs one invocation at a time while the clock advances (retention  *)
(* sweeps delete rows); OverlapSpec lets invocations overlap within one    *)
(* second of the clock.                                                    *)
(***************************************************************************)
EXTENDS Integers, Sequences, FiniteSets, TLC

\* ---------------------------------------------------------------- bounds
MaxTime == 2
MaxRuns == 3
MaxSamples == 3

\* ------------------------------------------------------------- constants
\* SQL NULL / JavaScript null (row.team_id ?? null).
NULL == -1

Gyms == {1, 2}
Procs == {1, 2}
\* gym.team_id: NULL, 0 (uncontested), 1 mystic, 2 valor, 3 instinct.
TeamIds == {NULL, 0, 1, 2, 3}
\* The states of the external table gym that a snapshot can find: for each
\* gym its team_id and whether the collector's WHERE clause selects it.
GymTables ==
  {<<[team_id |-> 1, enabled |-> TRUE], [team_id |-> NULL, enabled |-> TRUE]>>,
   <<[team_id |-> 2, enabled |-> TRUE], [team_id |-> 3, enabled |-> TRUE]>>,
   <<[team_id |-> 0, enabled |-> TRUE], [team_id |-> 1, enabled |-> FALSE]>>,
   <<[team_id |-> 0, enabled |-> FALSE], [team_id |-> NULL, enabled |-> FALSE]>>}
\* Values of retentionDays * 24 * 60 * 60 before Math.floor, in half seconds
\* (-3 is -1.5 s, 3 is 1.5 s).
RetentionEnv == {-3, 0, 1, 2, 3}

VARIABLES
  now,               \* wall clock, seconds (Date.now()/1000 and UNIX_TIMESTAMP())
  gym_history,       \* committed rows of gym_history
  gym_team_changes,  \* committed rows of gym_team_changes
  historyAutoInc,    \* next AUTO_INCREMENT id of gym_history
  changesAutoInc,    \* next AUTO_INCREMENT id of gym_team_changes
  started,           \* number of invocations the scheduler has started
  pc,                \* position of each invocation of collectGymHistory
  retentionSeconds,  \* Math.max(Math.floor(retentionDays * 24 * 60 * 60), 1)
  overlapped,        \* the invocation ran while another one was active
  currentRows,       \* SELECT id, team_id of the snapshot: gym id -> team_id
  snapChanges,       \* gym_team_changes as seen by the transaction's snapshot
  lastStateMap,      \* lastStateMap as built from lastStateRows
  timestamp,         \* Math.floor(Date.now() / 1000) in trackTeamChanges
  readAt,            \* how many runs had committed when the snapshot was taken
  insHistory,        \* uncommitted INSERTs into gym_history
  insChanges,        \* uncommitted INSERTs into gym_team_changes
  runs,              \* log of the committed invocations, in commit order
  fenced,            \* the gyms of the table gym inside the geofence
  reply,             \* the latest answer of fetchGymHistory
  env,               \* process.env: the configuration of collector and server
  call,              \* a query-layer call in progress, read by read
  gate,              \* /api/gyms: tokenStore, the clock in ms and the requests
  panel              \* GymHistoryChart: its React state and the fetches in flight

store == <<gym_history, gym_team_changes>>
autoInc == <<historyAutoInc, changesAutoInc>>
txReads == <<currentRows, snapChanges, lastStateMap, timestamp, readAt>>
txWrites == <<insHistory, insChanges>>
ctl == <<started, pc, retentionSeconds, overlapped>>
web == <<env, call, gate, panel>>
vars == <<now, store, autoInc, ctl, txReads, txWrites, runs, fenced, reply, web>>

Max(a, b) == IF a >= b THEN a ELSE b

Active == {"counted", "tracked"}

\* ------------------------------------------------------- pure functions

\* Math.max(Math.floor(retentionDays * 24 * 60 * 60), 1); the argument is the
\* product in half seconds.
RetentionSeconds(halfSeconds) == Max(halfSeconds \div 2, 1)

\* WHERE enabled = 1 AND ST_CONTAINS(geofence, POINT(lon, lat)).
InRegion(g) == {i \in Gyms : g[i].enabled}

\* SUM(CASE WHEN team_id = t THEN 1 ELSE 0 END): NULL over no rows.
SumTeam(g, t) ==
  IF InRegion(g) = {} THEN NULL
  ELSE Cardinality({i \in InRegion(g) : g[i].team_id = t})

\* Number(x || 0).
NumberOrZero(x) == IF x = NULL \/ x = 0 THEN 0 ELSE x

\* CountsRow with COUNT(*) restricted to the gyms a team holds.
CountsRow_OwnedOnly(g) ==
  [mystic   |-> NumberOrZero(SumTeam(g, 1)),
   valor    |-> NumberOrZero(SumTeam(g, 2)),
   instinct |-> NumberOrZero(SumTeam(g, 3)),
   total    |-> NumberOrZero(Cardinality({i \in InRegion(g) : g[i].team_id \in {1, 2, 3}}))]

\* The count query and the four Number(countsRow.x || 0).
CountsRow(g) ==
  [mystic   |-> NumberOrZero(SumTeam(g, 1)),
   valor    |-> NumberOrZero(SumTeam(g, 2)),
   instinct |-> NumberOrZero(SumTeam(g, 3)),
   total    |-> NumberOrZero(Cardinality(InRegion(g)))]

\* SELECT id, team_id FROM gym WHERE ...; currentTeam = row.team_id ?? null.
CurrentRows(g) == [i \in InRegion(g) |-> g[i].team_id]

GymIdsOf(changes) == {r.gym_id : r \in changes}

\* SELECT gym_id, MAX(changed_at) AS last_changed ... GROUP BY gym_id.
LastChanged(changes, g) ==
  CHOOSE t \in {r.changed_at : r \in {x \in changes : x.gym_id = g}} :
    \A r \in changes : r.gym_id = g => r.changed_at <= t

\* The join: every row of a gym that carries the gym's MAX(changed_at).
LastStateRows(changes) ==
  {r \in changes : r.changed_at = LastChanged(changes, r.gym_id)}

\* lastStateMap.set(row.gym_id, row.new_team_id) for each row: the last row of
\* a gym wins, and the query has no ORDER BY, so with several rows of a gym at
\* the same changed_at any of them can be the last.
LastStateMaps(changes) ==
  {m \in [GymIdsOf(changes) -> TeamIds] :
     \A g \in GymIdsOf(changes) :
       \E r \in LastStateRows(changes) : r.gym_id = g /\ r.new_team_id = m[g]}

\* DiffRow that skips the first observation of a gym without owner.
DiffRow_SkipNullFirst(rows, lastMap, g) ==
  IF g \notin DOMAIN lastMap THEN (IF rows[g] = NULL THEN {} ELSE {<<NULL, rows[g]>>})
  ELSE IF lastMap[g] # rows[g] THEN {<<lastMap[g], rows[g]>>}
  ELSE {}

\* DiffRow that records a flip without the owner it replaces.
DiffRow_OldNull(rows, lastMap, g) ==
  IF g \notin DOMAIN lastMap THEN {<<NULL, rows[g]>>}
  ELSE IF lastMap[g] # rows[g] THEN {<<NULL, rows[g]>>}
  ELSE {}

\* The body of the for loop of trackTeamChanges for one row: the
\* <<old_team_id, new_team_id>> pairs it inserts.
DiffRow(rows, lastMap, g) ==
  IF g \notin DOMAIN lastMap THEN {<<NULL, rows[g]>>}
  ELSE IF lastMap[g] # rows[g] THEN {<<lastMap[g], rows[g]>>}
  ELSE {}

\* The gyms of currentRows for which the loop inserts a row.
Writers(rows, lastMap) == {g \in DOMAIN rows : DiffRow(rows, lastMap, g) # {}}

\* The rows the loop inserts, with AUTO_INCREMENT ids from nextId on (one
\* INSERT per writing row, in the order of currentRows).
TrackedRows(rows, lastMap, ts, nextId) ==
  UNION {
    {[id          |-> nextId + Cardinality({h \in Writers(rows, lastMap) : h < g}),
      gym_id      |-> g,
      old_team_id |-> d[1],
      new_team_id |-> d[2],
      changed_at  |-> ts] : d \in DiffRow(rows, lastMap, g)} :
    g \in DOMAIN rows}

\* INSERT INTO gym_history (...) VALUES (UNIX_TIMESTAMP(), ?, ?, ?, ?).
HistoryRow(id, ts, counts) ==
  [id            |-> id,
   timestamp     |-> ts,
   team_mystic   |-> counts.mystic,
   team_valor    |-> counts.valor,
   team_instinct |-> counts.instinct,
   total_gyms    |-> counts.total]

\* ExpiredHistory with <= in place of <.
ExpiredHistory_Inclusive(rows, t, retention) ==
  {r.id : r \in {x \in rows : x.timestamp <= t - retention}}

\* DELETE FROM gym_history WHERE timestamp < UNIX_TIMESTAMP() - ?.
ExpiredHistory(rows, t, retention) ==
  {r.id : r \in {x \in rows : x.timestamp < t - retention}}

\* ExpiredChanges that deletes every row but the newest.
ExpiredChanges_AllButNewest(rows, t, retention) ==
  {r.id : r \in {x \in rows : \E y \in rows : y.changed_at > x.changed_at}}

\* DELETE FROM gym_team_changes WHERE changed_at < UNIX_TIMESTAMP() - ?.
ExpiredChanges(rows, t, retention) ==
  {r.id : r \in {x \in rows : x.changed_at < t - retention}}

\* What connection.commit() makes of a table: the transaction's deletes and
\* inserts applied to the committed rows.
Committed(rows, inserted, deleted) ==
  {r \in rows \cup inserted : r.id \notin deleted}

\* Snapshot of a dirty read: the uncommitted rows of other transactions too.
Snapshot_Dirty(committed, uncommitted) == committed \cup uncommitted

\* What a transaction's consistent read sees of a table: the rows committed
\* when its snapshot was taken, none of the rows other transactions have
\* inserted and not committed.
Snapshot(committed, uncommitted) == committed

\* The candidates of the join for each gym: the new_team_id of its rows at
\* MAX(changed_at).
LastOwners(changes) ==
  [g \in GymIdsOf(changes) |->
     {r.new_team_id : r \in {x \in LastStateRows(changes) : x.gym_id = g}}]

NoMap == [g \in {} |-> NULL]

\* ------------------------------------------- query layer: pure functions

\* PERIOD_CONFIG: duration and bucket of each period key, in seconds.
PERIOD_CONFIG ==
  [k \in {"6h", "12h", "24h", "48h", "7d"} |->
     CASE k = "6h"  -> [duration |-> 6 * 60 * 60, bucket |-> 5 * 60]
       [] k = "12h" -> [duration |-> 12 * 60 * 60, bucket |-> 5 * 60]
       [] k = "24h" -> [duration |-> 24 * 60 * 60, bucket |-> 5 * 60]
       [] k = "48h" -> [duration |-> 48 * 60 * 60, bucket |-> 15 * 60]
       [] k = "7d"  -> [duration |-> 7 * 24 * 60 * 60, bucket |-> 60 * 60]]

PeriodKeys == DOMAIN PERIOD_CONFIG

\* request.nextUrl.searchParams.get("period") of a URL without the parameter.
NoPeriod == "(null)"

\* The period parameters a request can carry.
PeriodParams == PeriodKeys \cup {"1y", NoPeriod}

\* GET: searchParams.get("period") ?? "24h".
RoutePeriod(param) == IF param = NoPeriod THEN "24h" ELSE param

\* PeriodKey that falls back to "6h".
PeriodKey_SixHours(period) == IF period \in PeriodKeys THEN period ELSE "6h"

\* key: the period when it is a key of PERIOD_CONFIG, "24h" otherwise.
PeriodKey(period) == IF period \in PeriodKeys THEN period ELSE "24h"

\* The sum of a column over rows.
RECURSIVE SumOf(_, _)
SumOf(rows, column) ==
  IF rows = {} THEN 0
  ELSE LET r == CHOOSE x \in rows : TRUE
       IN  r[column] + SumOf(rows \ {r}, column)

\* AVG of an INT column: a DECIMAL with four fractional digits, rounded; the
\* value is kept in units of 1/10000.
Avg(rows, column) ==
  (2 * 10000 * SumOf(rows, column) + Cardinality(rows)) \div (2 * Cardinality(rows))

\* MathRound that cuts the fraction off.
MathRound_Floor(x) == x \div 10000

\* Math.round of a value in units of 1/10000: the nearest integer, halves up.
MathRound(x) == (x + 5000) \div 10000

\* BucketOf that labels a bucket with its end.
BucketOf_End(ts, bucket) == (ts \div bucket) * bucket + bucket

\* FLOOR(timestamp / ?) * ?.
BucketOf(ts, bucket) == (ts \div bucket) * bucket

\* The rows of the history query: WHERE timestamp >= UNIX_TIMESTAMP() - ?,
\* GROUP BY bucket, with the four AVGs.
HistoryGroups(history, t, duration, bucket) ==
  LET rows == {r \in history : r.timestamp >= t - duration}
      In(b) == {r \in rows : BucketOf(r.timestamp, bucket) = b}
  IN  {[bucket   |-> b,
        mystic   |-> Avg(In(b), "team_mystic"),
        valor    |-> Avg(In(b), "team_valor"),
        instinct |-> Avg(In(b), "team_instinct"),
        total    |-> Avg(In(b), "total_gyms")] :
       b \in {BucketOf(r.timestamp, bucket) : r \in rows}}

\* ORDER BY bucket ASC.
RECURSIVE OrderByBucket(_)
OrderByBucket(groups) ==
  IF groups = {} THEN <<>>
  ELSE LET first == CHOOSE g \in groups : \A x \in groups : g.bucket <= x.bucket
       IN  <<first>> \o OrderByBucket(groups \ {first})

\* DerivedTotal that trusts the recorded total.
DerivedTotal_Recorded(recordedTotal, controlledSum) == recordedTotal

\* Math.max(recordedTotal, controlledSum).
DerivedTotal(recordedTotal, controlledSum) == Max(recordedTotal, controlledSum)

\* buildChartData.
buildChartData(rows) ==
  [k \in 1..Len(rows) |->
     LET mystic == MathRound(rows[k].mystic)
         valor == MathRound(rows[k].valor)
         instinct == MathRound(rows[k].instinct)
         recordedTotal == MathRound(rows[k].total)
         controlledSum == mystic + valor + instinct
     IN  [time     |-> rows[k].bucket * 1000,
          mystic   |-> mystic,
          valor    |-> valor,
          instinct |-> instinct,
          total    |-> DerivedTotal(recordedTotal, controlledSum)]]

\* LatestRows over the rows of a window instead of the whole table.
LatestRows_Windowed(history, t, duration) ==
  LET rows == {r \in history : r.timestamp >= t - duration}
  IN  {r \in rows : \A x \in rows : x.timestamp <= r.timestamp}

\* ORDER BY timestamp DESC LIMIT 1: the rows that can come first.
LatestRows(history, t, duration) ==
  {r \in history : \A x \in history : x.timestamp <= r.timestamp}

ZeroCounts == [mystic |-> 0, valor |-> 0, instinct |-> 0, total |-> 0]

\* currentCounts of a latest row.
CurrentCounts(latest) ==
  LET mystic == MathRound(latest.team_mystic * 10000)
      valor == MathRound(latest.team_valor * 10000)
      instinct == MathRound(latest.team_instinct * 10000)
      recordedTotal == MathRound(latest.total_gyms * 10000)
      controlledSum == mystic + valor + instinct
  IN  [mystic   |-> mystic,
       valor    |-> valor,
       instinct |-> instinct,
       total    |-> DerivedTotal(recordedTotal, controlledSum)]

\* currentCounts and lastUpdated; lastUpdated is written as the instant, in
\* milliseconds, that the ISO 8601 string denotes (new Date(0) is 0).
Latests(history, t, duration) ==
  IF LatestRows(history, t, duration) = {}
  THEN {[currentCounts |-> ZeroCounts, lastUpdated |-> 0]}
  ELSE {[currentCounts |-> CurrentCounts(r), lastUpdated |-> r.timestamp * 1000] :
        r \in LatestRows(history, t, duration)}

\* ContestedGroups whose COUNT leaves out the first observations.
ContestedGroups_NoFirst(changes, region, t, duration) ==
  LET rows == {r \in changes : r.changed_at >= t - duration /\ r.gym_id \in region}
      Of(g) == {r \in rows : r.gym_id = g}
  IN  {[gym_id       |-> g,
        change_count |-> Cardinality({r \in Of(g) : r.old_team_id # NULL}),
        last_changed |-> CHOOSE c \in {r.changed_at : r \in Of(g)} :
                           \A r \in Of(g) : r.changed_at <= c] :
       g \in GymIdsOf(rows)}

\* The groups of the contested query: the rows inside the window of the gyms
\* the JOIN and ST_CONTAINS keep, GROUP BY gym, COUNT and MAX(changed_at).
ContestedGroups(changes, region, t, duration) ==
  LET rows == {r \in changes : r.changed_at >= t - duration /\ r.gym_id \in region}
      Of(g) == {r \in rows : r.gym_id = g}
  IN  {[gym_id       |-> g,
        change_count |-> Cardinality(Of(g)),
        last_changed |-> CHOOSE c \in {r.changed_at : r \in Of(g)} :
                           \A r \in Of(g) : r.changed_at <= c] :
       g \in GymIdsOf(rows)}

\* RanksFirst with the older last_changed first among equal counts.
RanksFirst_OldestFirst(a, groups) ==
  \A x \in groups :
    \/ a.change_count > x.change_count
    \/ a.change_count = x.change_count /\ a.last_changed <= x.last_changed

\* A group no other group precedes under ORDER BY change_count DESC,
\* last_changed DESC.
RanksFirst(a, groups) ==
  \A x \in groups :
    \/ a.change_count > x.change_count
    \/ a.change_count = x.change_count /\ a.last_changed >= x.last_changed

\* The orders the ORDER BY allows (groups equal in both columns come in any
\* order).
RECURSIVE RankedOrders(_)
RankedOrders(groups) ==
  IF groups = {} THEN {<<>>}
  ELSE UNION {{<<a>> \o rest : rest \in RankedOrders(groups \ {a})} :
              a \in {x \in groups : RanksFirst(x, groups)}}

\* LIMIT n.
Limit(rows, n) == SubSeq(rows, 1, IF Len(rows) < n THEN Len(rows) ELSE n)

\* contestedRows: ORDER BY ... LIMIT 20.
ContestedRows(changes, region, t, duration) ==
  {Limit(o, 20) : o \in RankedOrders(ContestedGroups(changes, region, t, duration))}

\* normalizeTeamId.
normalizeTeamId(teamId) == IF teamId = NULL \/ teamId = 0 THEN NULL ELSE teamId

\* The orders ORDER BY changed_at DESC allows.
RECURSIVE NewestFirst(_)
NewestFirst(rows) ==
  IF rows = {} THEN {<<>>}
  ELSE UNION {{<<a>> \o rest : rest \in NewestFirst(rows \ {a})} :
              a \in {x \in rows : \A y \in rows : y.changed_at <= x.changed_at}}

\* KeepsChange that keeps every row.
KeepsChange_All(fromTeam, toTeam) == TRUE

\* The rows the loop of mapRecentChanges does not skip.
KeepsChange(fromTeam, toTeam) == fromTeam # toTeam

\* The loop of mapRecentChanges over the rows from a position on.
RECURSIVE MapRecent(_, _)
MapRecent(rows, grouped) ==
  IF rows = <<>> THEN grouped
  ELSE LET row == Head(rows)
           fromTeam == normalizeTeamId(row.old_team_id)
           toTeam == normalizeTeamId(row.new_team_id)
           list == IF row.gym_id \in DOMAIN grouped THEN grouped[row.gym_id] ELSE <<>>
           entry == [from |-> fromTeam, to |-> toTeam, timestamp |-> row.changed_at * 1000]
       IN  MapRecent(Tail(rows),
                     IF ~KeepsChange(fromTeam, toTeam) THEN grouped
                     ELSE (row.gym_id :> (IF Len(list) < 5 THEN Append(list, entry) ELSE list))
                            @@ grouped)

\* mapRecentChanges.
mapRecentChanges(rows) == MapRecent(rows, NoMap)

\* recentChangeMap.get(gym_id) ?? [] for the orders the recent-rows query
\* allows; the list of a gym depends on the order of its own rows only.
RecentLists(changes, g) ==
  {LET grouped == mapRecentChanges(o)
   IN  IF g \in DOMAIN grouped THEN grouped[g] ELSE <<>> :
   o \in NewestFirst({r \in changes : r.gym_id = g})}

\* contested: the contested rows with their recent_changes.  The columns taken
\* over from gym (name, lat, lon, url, current_team) are left out.
RECURSIVE ContestedLists(_, _)
ContestedLists(rows, changes) ==
  IF rows = <<>> THEN {<<>>}
  ELSE {<<[gym_id         |-> Head(rows).gym_id,
           change_count   |-> Head(rows).change_count,
           last_changed   |-> Head(rows).last_changed * 1000,
           recent_changes |-> l]>> \o rest :
        l \in RecentLists(changes, Head(rows).gym_id),
        rest \in ContestedLists(Tail(rows), changes)}

\* Responses with the recent-rows query restricted to the window.
Responses_WindowedRecent(period, history, changes, region, t) ==
  LET key == PeriodKey(period)
      duration == PERIOD_CONFIG[key].duration
      bucket == PERIOD_CONFIG[key].bucket
      chartData == buildChartData(OrderByBucket(HistoryGroups(history, t, duration, bucket)))
      contested == UNION {ContestedLists(rows, {r \in changes : r.changed_at >= t - duration}) :
                          rows \in ContestedRows(changes, region, t, duration)}
  IN  {[period        |-> key,
        chartData     |-> chartData,
        contestedGyms |-> c,
        currentCounts |-> l.currentCounts,
        lastUpdated   |-> l.lastUpdated] :
       c \in contested, l \in Latests(history, t, duration)}

\* The responses fetchGymHistory can return when every read succeeds.
Responses(period, history, changes, region, t) ==
  LET key == PeriodKey(period)
      duration == PERIOD_CONFIG[key].duration
      bucket == PERIOD_CONFIG[key].bucket
      chartData == buildChartData(OrderByBucket(HistoryGroups(history, t, duration, bucket)))
      contested == UNION {ContestedLists(rows, changes) :
                          rows \in ContestedRows(changes, region, t, duration)}
  IN  {[period        |-> key,
        chartData     |-> chartData,
        contestedGyms |-> c,
        currentCounts |-> l.currentCounts,
        lastUpdated   |-> l.lastUpdated] :
       c \in contested, l \in Latests(history, t, duration)}

\* The response of the two catch blocks.
EmptyResponse(key) ==
  [period        |-> key,
   chartData     |-> <<>>,
   contestedGyms |-> <<>>,
   currentCounts |-> ZeroCounts,
   lastUpdated   |-> 0]

\* No call of fetchGymHistory has returned.
NoReply ==
  [called |-> FALSE, param |-> NoPeriod, error |-> FALSE, response |-> EmptyResponse("24h")]

\* ---------------------------------------------- configuration and web state

\* A value of process.env as its characters; the empty value stands for an
\* unset variable and for the empty string, both falsy.
Unset == <<>>
WordChars == {"a", "1", "_"}
EnvChars == WordChars \cup {"-"}

\* ensure: throws on a falsy value (TRUE stands for the throw).
EnsureThrows(value) == value = Unset

\* /^\w+$/.test(value)
IsWord(value) == Len(value) >= 1 /\ \A k \in 1..Len(value) : value[k] \in WordChars

\* ensureIdentifier of the server and of the collector: throws on a falsy
\* value and on a value that is not /^\w+$/.
EnsureIdentifierThrows(value) == value = Unset \/ ~IsWord(value)

\* A configuration with which collector and server both run.
ValidEnv ==
  [DB_HOST |-> <<"a">>, DB_USER |-> <<"a">>, DB_PASS |-> <<"a">>,
   DB_NAME |-> <<"a", "_", "1">>, GEOFENCE_DB_NAME |-> <<"a", "1">>,
   GEOFENCE_ID |-> <<"1">>, INTERNAL_API_SECRET |-> <<"a">>]

\* No call of the query layer in progress.
NoCall ==
  [pc |-> "idle", op |-> "none", param |-> NoPeriod, key |-> "24h", at |-> "none",
   chartData |-> <<>>, currentCounts |-> ZeroCounts, lastUpdated |-> 0,
   contestedRows |-> <<>>, history |-> {}, changes |-> {}, rows |-> <<>>,
   result |-> <<>>]

\* No request to /api/gyms answered yet.
NoRequest ==
  [method |-> "none", status |-> 0, header |-> FALSE, token |-> 0,
   readFirst |-> 0, readLast |-> 0, reached |-> FALSE]

\* /api/gyms before any request: Date.now() in ms since the process started,
\* an empty tokenStore, no token issued (issued[k] is the time token k was
\* created at), the clock not yet moved, no request answered.
NoGate ==
  [time |-> 0, tokenStore |-> << >>, issued |-> << >>, moved |-> 0, last |-> NoRequest]

\* The value of data before a payload has arrived (null).
NoData == "null"

\* GymHistoryChart before it is mounted: the initial values of its state and
\* of hasLoadedRef, no fetch started. data holds the period of the payload,
\* flights the fetches that have not been answered.
NoPanel ==
  [mounted |-> FALSE, period |-> "24h", loading |-> TRUE, data |-> NoData,
   error |-> FALSE, hasLoaded |-> FALSE, fetches |-> 0, flights |-> {}]

\* The web layer at rest.
WebIdle == env = ValidEnv /\ call = NoCall /\ gate = NoGate /\ panel = NoPanel

\* ------------------------------------------------------------------ Init
Init ==
  /\ now = 0
  /\ gym_history = {}
  /\ gym_team_changes = {}
  /\ historyAutoInc = 1
  /\ changesAutoInc = 1
  /\ started = 0
  /\ pc = [p \in Procs |-> "idle"]
  /\ retentionSeconds \in {RetentionSeconds(k) : k \in RetentionEnv}
  /\ overlapped = [p \in Procs |-> FALSE]
  /\ currentRows = [p \in Procs |-> NoMap]
  /\ snapChanges = [p \in Procs |-> {}]
  /\ lastStateMap = [p \in Procs |-> NoMap]
  /\ timestamp = [p \in Procs |-> 0]
  /\ readAt = [p \in Procs |-> 0]
  /\ insHistory = [p \in Procs |-> {}]
  /\ insChanges = [p \in Procs |-> {}]
  /\ runs = <<>>
  /\ fenced = Gyms
  /\ WebIdle
  /\ reply = NoReply

\* --------------------------------------------------------------- actions

\* The locals of an invocation that is not running.
ResetLocals(p) ==
  /\ currentRows' = [currentRows EXCEPT ![p] = NoMap]
  /\ snapChanges' = [snapChanges EXCEPT ![p] = {}]
  /\ lastStateMap' = [lastStateMap EXCEPT ![p] = NoMap]
  /\ timestamp' = [timestamp EXCEPT ![p] = 0]
  /\ readAt' = [readAt EXCEPT ![p] = 0]
  /\ insHistory' = [insHistory EXCEPT ![p] = {}]
  /\ insChanges' = [insChanges EXCEPT ![p] = {}]

\* The scheduler may start an invocation in slot p: the slot is free, and so
\* is no lower slot (the slots are interchangeable).
CanStart(p) ==
  /\ pc[p] \notin Active
  /\ \A q \in Procs : q < p => pc[q] \in Active
  /\ started < MaxRuns

\* The invocations that run while p starts.
Overlapping(p) == {q \in Procs \ {p} : pc[q] \in Active}

\* collectGymHistory up to the INSERT INTO gym_history: configuration, pool,
\* connection, beginTransaction, the count query (the transaction's first
\* read, which fixes its snapshot of gym and gym_team_changes) and the INSERT.
Start(p) ==
  /\ CanStart(p)
  /\ started' = started + 1
  /\ pc' = [pc EXCEPT ![p] = "counted"]
  /\ overlapped' = [q \in Procs |->
                      IF q = p THEN Overlapping(p) # {}
                      ELSE IF q \in Overlapping(p) THEN TRUE ELSE overlapped[q]]
  /\ \E g \in GymTables :
       /\ currentRows' = [currentRows EXCEPT ![p] = CurrentRows(g)]
       /\ insHistory' = [insHistory EXCEPT ![p] = {HistoryRow(historyAutoInc, now, CountsRow(g))}]
  /\ snapChanges' = [snapChanges EXCEPT ![p] =
                        Snapshot(gym_team_changes, UNION {insChanges[q] : q \in Procs \ {p}})]
  /\ readAt' = [readAt EXCEPT ![p] = Len(runs)]
  /\ historyAutoInc' = historyAutoInc + 1
  /\ UNCHANGED <<web, fenced, reply, now, store, changesAutoInc, retentionSeconds, lastStateMap,
                 timestamp, insChanges, runs>>

\* trackTeamChanges: the last-state query, the timestamp and the loop of
\* INSERTs over the rows of the snapshot.
TrackTeamChanges(p) ==
  /\ pc[p] = "counted"
  /\ pc' = [pc EXCEPT ![p] = "tracked"]
  /\ \E m \in LastStateMaps(snapChanges[p]) :
       /\ lastStateMap' = [lastStateMap EXCEPT ![p] = m]
       /\ insChanges' = [insChanges EXCEPT ![p] =
                           TrackedRows(currentRows[p], m, now, changesAutoInc)]
       /\ changesAutoInc' = changesAutoInc + Cardinality(Writers(currentRows[p], m))
  /\ timestamp' = [timestamp EXCEPT ![p] = now]
  /\ UNCHANGED <<web, fenced, reply, now, store, historyAutoInc, started, retentionSeconds, overlapped,
                 currentRows, snapChanges, readAt, insHistory, runs>>

\* The rows of gym_history the first DELETE removes: a locking read of the
\* committed rows and the transaction's own.
SweptHistory(p) ==
  ExpiredHistory(gym_history \cup insHistory[p], now, retentionSeconds)

\* The rows of gym_team_changes the second DELETE removes.
SweptChanges(p) ==
  ExpiredChanges(gym_team_changes \cup insChanges[p], now, retentionSeconds)

\* What the log keeps of a committed invocation.
RunRecord(p) ==
  [observed   |-> currentRows[p],
   lastOwners |-> LastOwners(snapChanges[p]),
   lastRead   |-> lastStateMap[p],
   ts         |-> timestamp[p],
   readAt     |-> readAt[p],
   hist       |-> insHistory[p],
   wrote      |-> insChanges[p],
   sweepAt    |-> now,
   swept      |-> SweptHistory(p) # {} \/ SweptChanges(p) # {},
   overlapped |-> overlapped[p]]

\* The retention sweep, connection.commit() and process.exit(0).  The DELETEs
\* wait while another transaction holds an uncommitted row inside their range.
SweepAndCommit(p) ==
  /\ pc[p] = "tracked"
  /\ \A q \in Procs \ {p} :
       /\ ExpiredHistory(insHistory[q], now, retentionSeconds) = {}
       /\ ExpiredChanges(insChanges[q], now, retentionSeconds) = {}
  /\ pc' = [pc EXCEPT ![p] = "done"]
  /\ gym_history' = Committed(gym_history, insHistory[p], SweptHistory(p))
  /\ gym_team_changes' = Committed(gym_team_changes, insChanges[p], SweptChanges(p))
  /\ runs' = Append(runs, RunRecord(p))
  /\ ResetLocals(p)
  /\ UNCHANGED <<web, fenced, reply, now, autoInc, started, retentionSeconds, overlapped>>

\* RolledBack without the rollback: the inserts stay.
RolledBack_KeepInserts(rows, inserted) == rows \cup inserted

\* What the catch block leaves of a table: connection.rollback() drops the
\* transaction's inserts (and deletes).
RolledBack(rows, inserted) == rows

\* An awaited call inside the try block rejects after the first INSERT (the
\* queries or an INSERT of trackTeamChanges, a DELETE, the commit): catch
\* (rollback, rethrow), finally, process.exit(1).
Fail(p) ==
  /\ pc[p] \in Active
  /\ pc' = [pc EXCEPT ![p] = "failed"]
  /\ gym_history' = RolledBack(gym_history, insHistory[p])
  /\ gym_team_changes' = RolledBack(gym_team_changes, insChanges[p])
  /\ ResetLocals(p)
  /\ UNCHANGED <<web, fenced, reply, now, autoInc, started, retentionSeconds, overlapped, runs>>

\* The invocation fails before its first INSERT (getConnection,
\* beginTransaction, the count query or the INSERT itself rejects).
FailStart(p) ==
  /\ CanStart(p)
  /\ started' = started + 1
  /\ pc' = [pc EXCEPT ![p] = "failed"]
  /\ gym_history' = RolledBack(gym_history, {})
  /\ gym_team_changes' = RolledBack(gym_team_changes, {})
  /\ UNCHANGED <<web, fenced, reply, now, autoInc, retentionSeconds, overlapped, txReads, txWrites, runs>>

\* A second of wall-clock time passes.
Tick ==
  /\ now < MaxTime
  /\ now' = now + 1
  /\ UNCHANGED <<web, fenced, reply, store, autoInc, ctl, txReads, txWrites, runs>>

\* The scheduler starts an invocation when none is running.
StartAlone(p) == Overlapping(p) = {} /\ Start(p)

\* The same for an invocation that fails before its first INSERT.
FailStartAlone(p) == Overlapping(p) = {} /\ FailStart(p)

\* The collector under a scheduler whose period is longer than a run: one
\* invocation at a time, while the clock advances.
Next ==
  \/ \E p \in Procs : StartAlone(p)
  \/ \E p \in Procs : TrackTeamChanges(p)
  \/ \E p \in Procs : SweepAndCommit(p)
  \/ \E p \in Procs : Fail(p)
  \/ \E p \in Procs : FailStartAlone(p)
  \/ Tick

Spec == Init /\ [][Next]_vars

\* The collector with invocations that may overlap, all of them within one
\* second of the clock.
NextOverlap ==
  \/ \E p \in Procs : Start(p)
  \/ \E p \in Procs : TrackTeamChanges(p)
  \/ \E p \in Procs : SweepAndCommit(p)
  \/ \E p \in Procs : Fail(p)
  \/ \E p \in Procs : FailStart(p)

OverlapSpec == Init /\ [][NextOverlap]_vars

\* ---------------------------------------------------------- query layer

\* GET /api/gym-history and fetchGymHistory when every read succeeds: the
\* four reads see the committed tables at one instant.  One request is
\* followed: the state keeps its answer next to the store it was read from.
FetchGymHistory(param) ==
  /\ ~reply.called
  /\ \E r \in Responses(RoutePeriod(param), gym_history, gym_team_changes, fenced, now) :
       reply' = [called |-> TRUE, param |-> param, error |-> FALSE, response |-> r]
  /\ UNCHANGED <<now, store, autoInc, ctl, txReads, txWrites, runs, fenced, web>>

\* fetchGymHistory when ensureIdentifier throws or a read rejects: the catch
\* blocks return the empty shape.
FetchGymHistoryFails(param) ==
  /\ ~reply.called
  /\ reply' = [called |-> TRUE, param |-> param, error |-> TRUE,
               response |-> EmptyResponse(PeriodKey(RoutePeriod(param)))]
  /\ UNCHANGED <<now, store, autoInc, ctl, txReads, txWrites, runs, fenced, web>>

\* GYM_HISTORY_RETENTION_DAYS unset: Number(undefined || 7) days.
DefaultRetention == RetentionSeconds(2 * 7 * 24 * 60 * 60)

\* The instants at which the store is written and read under QuerySpec: two
\* neighbouring 300 s buckets and an instant more than the retention later.
QueryClock ==
  {7 * 24 * 60 * 60 + 100, 7 * 24 * 60 * 60 + 400, 2 * 7 * 24 * 60 * 60 + 101}

\* No invocation of the collector is running or has run, and no request has
\* been answered.
IdleCollector ==
  /\ started = 0
  /\ pc = [p \in Procs |-> "idle"]
  /\ overlapped = [p \in Procs |-> FALSE]
  /\ currentRows = [p \in Procs |-> NoMap]
  /\ snapChanges = [p \in Procs |-> {}]
  /\ lastStateMap = [p \in Procs |-> NoMap]
  /\ timestamp = [p \in Procs |-> 0]
  /\ readAt = [p \in Procs |-> 0]
  /\ insHistory = [p \in Procs |-> {}]
  /\ insChanges = [p \in Procs |-> {}]
  /\ runs = <<>>
  /\ reply = NoReply

\* Empty tables at the first instant of QueryClock, every gym inside the
\* geofence.
QueryInit ==
  /\ IdleCollector
  /\ now = CHOOSE t \in QueryClock : \A u \in QueryClock : t <= u
  /\ gym_history = {}
  /\ gym_team_changes = {}
  /\ historyAutoInc = 1
  /\ changesAutoInc = 1
  /\ retentionSeconds = DefaultRetention
  /\ fenced = Gyms
  /\ WebIdle

\* A whole successful invocation of collectGymHistory within one second, with
\* no other invocation running: the count, the INSERT, trackTeamChanges, the
\* two DELETEs and the commit.
CollectSnapshot ==
  /\ ~reply.called
  /\ started < MaxRuns
  /\ started' = started + 1
  /\ \E g \in GymTables :
       \E m \in LastStateMaps(Snapshot(gym_team_changes, {})) :
         LET hist == {HistoryRow(historyAutoInc, now, CountsRow(g))}
             wrote == TrackedRows(CurrentRows(g), m, now, changesAutoInc)
         IN  /\ gym_history' =
                  Committed(gym_history, hist,
                            ExpiredHistory(gym_history \cup hist, now, retentionSeconds))
             /\ gym_team_changes' =
                  Committed(gym_team_changes, wrote,
                            ExpiredChanges(gym_team_changes \cup wrote, now, retentionSeconds))
             /\ changesAutoInc' = changesAutoInc + Cardinality(Writers(CurrentRows(g), m))
  /\ historyAutoInc' = historyAutoInc + 1
  /\ UNCHANGED <<now, pc, retentionSeconds, overlapped, txReads, txWrites, runs,
                 reply, fenced, web>>

\* The clock reaches the next instant of QueryClock.
Advance ==
  /\ ~reply.called
  /\ \E t \in QueryClock :
       /\ t > now
       /\ \A u \in QueryClock : u > now => t <= u
       /\ now' = t
  /\ UNCHANGED <<store, autoInc, ctl, txReads, txWrites, runs, reply, fenced, web>>

\* The collector, run by run, and the query layer answering a request.
QueryNext ==
  \/ CollectSnapshot
  \/ Advance
  \/ \E param \in PeriodParams : FetchGymHistory(param)
  \/ \E param \in PeriodParams : FetchGymHistoryFails(param)

QuerySpec == QueryInit /\ [][QueryNext]_vars

\* The instant of the requests under ArchiveSpec.
ArchiveNow == 2 * 7 * 24 * 60 * 60 + 400

\* A gym_history row written back seconds before ArchiveNow.
ArchiveSample(id, back, mystic, valor, instinct, total) ==
  HistoryRow(id, ArchiveNow - back,
             [mystic |-> mystic, valor |-> valor, instinct |-> instinct, total |-> total])

\* Rows of gym_history found in a store: three in one 300 s bucket, two on
\* either side of the start of the 6 h window, and in the latest bucket a row
\* as the columns admit it (four unconstrained INT UNSIGNED) whose total_gyms
\* is below the sum of its team counts; the collector itself writes
\* total_gyms >= that sum.
ArchiveSamples ==
  {ArchiveSample(1, 400, 4, 3, 3, 10),
   ArchiveSample(2, 300, 8, 6, 6, 20),
   ArchiveSample(3, 101, 12, 9, 9, 30),
   ArchiveSample(4, 100, 3, 3, 3, 5),
   ArchiveSample(5, 6 * 60 * 60, 1, 0, 0, 1),
   ArchiveSample(6, 6 * 60 * 60 + 1, 0, 1, 0, 1)}

\* A gym_team_changes row written back seconds before ArchiveNow.
ArchiveChange(id, g, old, new, back) ==
  [id |-> id, gym_id |-> g, old_team_id |-> old, new_team_id |-> new,
   changed_at |-> ArchiveNow - back]

\* The gyms of the table gym under ArchiveSpec, and those inside the geofence.
ArchiveGyms == 1..24
ArchiveFenced == 1..23

\* One gym with more than five changes, some of them between 0 and NULL, two
\* of them in the same second, some older than the 6 h window; a second gym
\* first observed without owner.
ArchiveBusy ==
  {ArchiveChange(1, 1, NULL, 0, 30000),
   ArchiveChange(2, 1, 0, 1, 25000),
   ArchiveChange(3, 1, 1, 2, 6 * 60 * 60 + 1),
   ArchiveChange(4, 1, 2, 1, 6 * 60 * 60),
   ArchiveChange(5, 1, 1, 3, 500),
   ArchiveChange(6, 1, 3, 0, 400),
   ArchiveChange(7, 1, 0, NULL, 300),
   ArchiveChange(8, 1, NULL, 2, 200),
   ArchiveChange(9, 1, 2, 1, 200),
   ArchiveChange(10, 2, NULL, NULL, 100)}

\* More gyms with changes than the LIMIT of the contested query: two gyms
\* with two changes each, twenty-one with one change (two of them in the same
\* second where the LIMIT cuts), and a gym outside the geofence with three.
ArchiveCrowd ==
  {ArchiveChange(1, 1, NULL, 1, 50), ArchiveChange(2, 1, 1, 2, 1),
   ArchiveChange(3, 2, NULL, 2, 60), ArchiveChange(4, 2, 2, 3, 2)}
  \cup {ArchiveChange(g + 2, g, NULL, 1, IF g = 21 THEN 20 ELSE g) : g \in 3..23}
  \cup {ArchiveChange(26, 24, NULL, 1, 3), ArchiveChange(27, 24, 1, 2, 2),
        ArchiveChange(28, 24, 2, 3, 1)}

\* A third gym with three changes, the latest one alone inside the 6 h window.
ArchiveSparse ==
  {ArchiveChange(1, 3, NULL, 1, 30000),
   ArchiveChange(2, 3, 1, 2, 25000),
   ArchiveChange(3, 3, 2, 3, 100)}

ArchiveChangeSets == {{}, ArchiveBusy, ArchiveCrowd, ArchiveSparse}

\* A store as the query layer can find it: up to MaxSamples of the samples
\* and one of the sets of changes.
ArchiveInit ==
  /\ IdleCollector
  /\ now = ArchiveNow
  /\ gym_history \in {S \in SUBSET ArchiveSamples : Cardinality(S) <= MaxSamples}
  /\ gym_team_changes \in ArchiveChangeSets
  /\ historyAutoInc = Cardinality(ArchiveSamples) + 1
  /\ changesAutoInc = Cardinality(ArchiveCrowd) + 1
  /\ retentionSeconds = DefaultRetention
  /\ fenced = ArchiveFenced
  /\ WebIdle

\* The query layer answering a request.
ArchiveNext ==
  \/ \E param \in PeriodParams : FetchGymHistory(param)
  \/ \E param \in PeriodParams : FetchGymHistoryFails(param)

ArchiveSpec == ArchiveInit /\ [][ArchiveNext]_vars

\* process.exit(0) after the commit, process.exit(1) from the catch.
ExitCode(p) == IF pc[p] = "done" THEN 0 ELSE IF pc[p] = "failed" THEN 1 ELSE NULL

TypeOK ==
  /\ now \in 0..MaxTime
  /\ started \in 0..MaxRuns
  /\ historyAutoInc \in 1..(MaxRuns + 1)
  /\ \A r \in gym_team_changes : r.gym_id \in Gyms /\ r.new_team_id \in TeamIds
  /\ \A r \in gym_history : r.total_gyms \in 0..Cardinality(Gyms)

\* ----------------------------------------------------- the log of runs
Runs == 1..Len(runs)

\* The rows a committed run inserted for a gym.
WroteFor(i, g) == {r \in runs[i].wrote : r.gym_id = g}

\* The gyms that had a row in gym_team_changes when run i read it.
Known(i) == DOMAIN runs[i].lastOwners

\* Runs i-1 and i are consecutive successful runs that overlap no other.
Consecutive(i) == i \in Runs /\ i > 1 /\ ~runs[i].overlapped /\ ~runs[i - 1].overlapped


\* ------------------------------------------------------------ claims

\* C1: a committed run that observes a gym for which its read of
\* gym_team_changes holds no row has inserted exactly one row for that gym:
\* old_team_id NULL, new_team_id the gym's current team_id (also when that is
\* NULL), changed_at the run's timestamp.
C1_FirstObservation ==
  \A i \in Runs : \A g \in DOMAIN runs[i].observed :
    g \notin Known(i) =>
      WroteFor(i, g) = {r \in runs[i].wrote :
                          /\ r.gym_id = g
                          /\ r.old_team_id = NULL
                          /\ r.new_team_id = runs[i].observed[g]
                          /\ r.changed_at = runs[i].ts}
      /\ Cardinality(WroteFor(i, g)) = 1

\* A run has committed the first observation of a gym whose team_id is NULL.
C1_Witness ==
  \E i \in Runs : \E g \in DOMAIN runs[i].observed :
    /\ g \notin Known(i)
    /\ runs[i].observed[g] = NULL
    /\ \E r \in gym_team_changes :
         r \in runs[i].wrote /\ r.gym_id = g /\ r.old_team_id = NULL /\ r.new_team_id = NULL

ObservedWith(i, t) == Cardinality({g \in DOMAIN runs[i].observed : runs[i].observed[g] = t})

\* C7: the gym_history row of a committed run counts the observed gyms of
\* team 1, 2 and 3 in team_mystic, team_valor, team_instinct and all observed
\* gyms, owner-less ones included, in total_gyms; every committed row has
\* total_gyms >= team_mystic + team_valor + team_instinct.
C7_SampleCounts ==
  /\ \A i \in Runs : \A h \in runs[i].hist :
       /\ h.team_mystic = ObservedWith(i, 1)
       /\ h.team_valor = ObservedWith(i, 2)
       /\ h.team_instinct = ObservedWith(i, 3)
       /\ h.total_gyms = Cardinality(DOMAIN runs[i].observed)
  /\ \A h \in gym_history : h.total_gyms >= h.team_mystic + h.team_valor + h.team_instinct

\* A committed sample counts an owner-less gym in total_gyms only.
C7_Witness ==
  \E i \in Runs : \E h \in runs[i].hist :
    /\ h \in gym_history
    /\ \E g \in DOMAIN runs[i].observed : runs[i].observed[g] \in {NULL, 0}
    /\ h.total_gyms > h.team_mystic + h.team_valor + h.team_instinct
    /\ h.team_mystic + h.team_valor + h.team_instinct > 0

\* C2: when a gym has a row in gym_team_changes and is observed with the
\* same owner by two consecutive committed runs that overlap no other run,
\* the second run inserts no row for the gym.
C2_NoOpSuppression ==
  \A i \in Runs : Consecutive(i) =>
    \A g \in DOMAIN runs[i].observed \cap DOMAIN runs[i - 1].observed :
      (g \in Known(i) /\ runs[i].observed[g] = runs[i - 1].observed[g]) =>
        WroteFor(i, g) = {}

\* The rows of a table in the order of their AUTO_INCREMENT ids.
RECURSIVE ById(_)
ById(rows) ==
  IF rows = {} THEN <<>>
  ELSE LET first == CHOOSE r \in rows : \A x \in rows : r.id <= x.id
       IN  <<first>> \o ById(rows \ {first})

\* The <<old_team_id, new_team_id>> pairs of a gym's committed rows, in
\* write order.
EventsOf(g) ==
  LET rows == ById({r \in gym_team_changes : r.gym_id = g})
  IN  [k \in 1..Len(rows) |-> <<rows[k].old_team_id, rows[k].new_team_id>>]

\* The owners the first n committed runs observed for a gym, in run order.
RECURSIVE ObservedOwners(_, _)
ObservedOwners(g, n) ==
  IF n = 0 THEN <<>>
  ELSE IF g \in DOMAIN runs[n].observed
       THEN Append(ObservedOwners(g, n - 1), runs[n].observed[g])
       ELSE ObservedOwners(g, n - 1)

\* One <<o(i), o(i+1)>> for each pair of consecutive different owners.
RECURSIVE Flips(_)
Flips(owners) ==
  IF Len(owners) < 2 THEN <<>>
  ELSE (IF owners[1] # owners[2] THEN <<<<owners[1], owners[2]>>>> ELSE <<>>)
         \o Flips(Tail(owners))

\* The first observation <<NULL, o1>> followed by the flips.
ExpectedEvents(owners) ==
  IF owners = <<>> THEN <<>> ELSE <<<<NULL, owners[1]>>>> \o Flips(owners)

\* C4: as long as every committed run overlapped no other and no run's
\* retention sweep has deleted a row, the rows of each gym in write order are
\* the first observation <<NULL, o1>> followed by one <<o(i), o(i+1)>> for
\* each pair of consecutive runs that observed different owners.
C4_EventChain ==
  (\A i \in Runs : ~runs[i].overlapped /\ ~runs[i].swept) =>
    \A g \in Gyms : EventsOf(g) = ExpectedEvents(ObservedOwners(g, Len(runs)))

\* The runs that inserted a first observation for a gym: a row with
\* old_team_id NULL written because lastStateMap had no entry for the gym.
FirstObservers(g) ==
  {i \in Runs : g \notin Known(i) /\ \E r \in WroteFor(i, g) : r.old_team_id = NULL}

\* C5: over committed runs that overlap no other, retention sweeps included,
\* at most one run inserts the first observation of a gym.
C5_FirstObservationOnce ==
  (\A i \in Runs : ~runs[i].overlapped) =>
    \A g \in Gyms : Cardinality(FirstObservers(g)) <= 1

\* Every committed run inserted exactly one gym_history row, at its own id,
\* with the counts 0, 0, 0, 0 when it observed no gym.
OneSamplePerRun ==
  /\ \A i \in Runs :
       /\ Cardinality(runs[i].hist) = 1
       /\ runs[i].observed = NoMap =>
            \A h \in runs[i].hist :
              h.team_mystic = 0 /\ h.team_valor = 0 /\ h.team_instinct = 0 /\ h.total_gyms = 0
  /\ Cardinality(UNION {runs[i].hist : i \in Runs}) = Len(runs)
  /\ (\A i \in Runs : ~runs[i].swept) => gym_history = UNION {runs[i].hist : i \in Runs}

\* A run that observed no gym has committed its sample, and the table holds
\* two samples of two runs.
OneSamplePerRun_Witness ==
  /\ \E i \in Runs : runs[i].observed = NoMap /\ runs[i].hist \subseteq gym_history
  /\ Cardinality(gym_history) >= 2

\* C6: every committed run appends exactly one gym_history row (also with no
\* gym in the region), n runs append n rows, and the second of two
\* consecutive runs inside the retention window that observe the same owners
\* appends no gym_team_changes row.
C6_OneSampleNoChange ==
  /\ OneSamplePerRun
  /\ \A i \in Runs :
       (Consecutive(i) /\ ~runs[i].swept /\ ~runs[i - 1].swept
          /\ runs[i].observed = runs[i - 1].observed) => runs[i].wrote = {}

\* C8: the step in which an invocation fails leaves gym_history and
\* gym_team_changes as they are, drops the transaction's inserts, ends the
\* invocation with exit code 1 and starts no further attempt; and every
\* committed row was inserted by a run that committed.
C8_Rollback ==
  /\ [][\A p \in Procs :
          (pc[p] # "failed" /\ pc'[p] = "failed") =>
            /\ gym_history' = gym_history
            /\ gym_team_changes' = gym_team_changes
            /\ insHistory'[p] = {} /\ insChanges'[p] = {}
            /\ ExitCode(p)' = 1
            /\ \A q \in Procs \ {p} : pc'[q] = pc[q]
            /\ runs' = runs]_vars
  /\ [](/\ gym_history \subseteq UNION {runs[i].hist : i \in Runs}
        /\ gym_team_changes \subseteq UNION {runs[i].wrote : i \in Runs})

\* An invocation has failed after its inserts consumed ids, and both tables
\* are empty.
C8_Witness ==
  \E p \in Procs :
    /\ ExitCode(p) = 1
    /\ historyAutoInc > 1 /\ changesAutoInc > 1
    /\ gym_history = {} /\ gym_team_changes = {}
    /\ runs = <<>>

BothReadFirst(i, j) == i \in Runs /\ j \in Runs /\ i < j /\ runs[j].readAt < i

\* The last state of gym g as run i read it: no state, or the candidates of
\* the join.
LastStateOf(i, g) == IF g \in Known(i) THEN runs[i].lastOwners[g] ELSE {}

\* C10: when two runs both read the last state before either commits, both
\* append a gym_history row; snapshots taken of the same committed state hold
\* the same last state; and for a gym both observe with the same owner and
\* read with the same last state, both insert the same first observation, or
\* the same flip from the one last owner.
C10_DuplicateOnOverlap ==
  \A i \in Runs, j \in Runs : BothReadFirst(i, j) =>
    /\ Cardinality(runs[i].hist \cup runs[j].hist) = 2
    /\ runs[i].readAt = runs[j].readAt => runs[i].lastOwners = runs[j].lastOwners
    /\ \A g \in DOMAIN runs[i].observed \cap DOMAIN runs[j].observed :
         (/\ runs[i].observed[g] = runs[j].observed[g]
          /\ LastStateOf(i, g) = LastStateOf(j, g)) =>
           /\ LastStateOf(i, g) = {} =>
                \E a \in WroteFor(i, g), b \in WroteFor(j, g) :
                  /\ a.id # b.id
                  /\ a.old_team_id = NULL /\ b.old_team_id = NULL
                  /\ a.new_team_id = b.new_team_id
           /\ (/\ Cardinality(LastStateOf(i, g)) = 1
               /\ LastStateOf(i, g) # {runs[i].observed[g]}) =>
                \E a \in WroteFor(i, g), b \in WroteFor(j, g) :
                  /\ a.id # b.id
                  /\ a.old_team_id = b.old_team_id
                  /\ a.new_team_id = b.new_team_id

\* Two overlapping runs have committed two samples and, for one gym, twice
\* the same flip.
C10_Witness ==
  \E i \in Runs, j \in Runs :
    /\ BothReadFirst(i, j)
    /\ runs[i].hist \cup runs[j].hist \subseteq gym_history
    /\ \E a \in runs[i].wrote, b \in runs[j].wrote :
         /\ a \in gym_team_changes /\ b \in gym_team_changes
         /\ a.gym_id = b.gym_id
         /\ a.old_team_id = b.old_team_id /\ a.old_team_id # NULL
         /\ a.new_team_id = b.new_team_id

\* Two overlapping runs have both committed the first observation of a gym.
C10_WitnessFirst ==
  \E i \in Runs, j \in Runs :
    /\ BothReadFirst(i, j)
    /\ \E a \in runs[i].wrote, b \in runs[j].wrote :
         /\ a \in gym_team_changes /\ b \in gym_team_changes
         /\ a.gym_id = b.gym_id /\ a.id # b.id
         /\ a.old_team_id = NULL /\ b.old_team_id = NULL
         /\ a.gym_id \notin Known(i) /\ a.gym_id \notin Known(j)

\* The new_team_id of the gym's most recently written row: the one with the
\* greatest AUTO_INCREMENT id.
MostRecentOwner(changes, g) ==
  LET rows == {r \in changes : r.gym_id = g}
      last == CHOOSE r \in rows : \A x \in rows : x.id <= r.id
  IN  last.new_team_id

\* C11: the last known owner an invocation uses for a gym is the new_team_id
\* of the gym's most recently written row of its snapshot, also when two rows
\* of the gym carry the same changed_at.
C11_LastKnownIsLatest ==
  \A p \in Procs : pc[p] = "tracked" =>
    \A g \in DOMAIN lastStateMap[p] :
      lastStateMap[p][g] = MostRecentOwner(snapChanges[p], g)

\* C12: every row a committed run wrote with old_team_id NULL is a first
\* observation: the run's snapshot held no row of the gym.
C12_NullOldIsFirstObservation ==
  \A i \in Runs : \A r \in runs[i].wrote :
    r.old_team_id = NULL => r.gym_id \notin Known(i)

\* ------------------------------------------- claims on the query layer

\* fetchGymHistory has answered from its reads.
Answered == reply.called /\ ~reply.error

\* The rows of a table that carry the id of r.
SameId(rows, r) == {x \in rows : x.id = r.id}

\* C13: no step changes a row of gym_history or gym_team_changes in place: a
\* row of before is afterwards there with the same values, or a run of the
\* collector has removed it and it was older than the run's retention window;
\* a call of fetchGymHistory leaves both tables as they are.
C13_NoUpdateInPlace ==
  [][/\ \A r \in gym_history :
          \/ SameId(gym_history', r) = {r}
          \/ /\ SameId(gym_history', r) = {}
             /\ started' = started + 1
             /\ r.timestamp < now - retentionSeconds
     /\ \A r \in gym_team_changes :
          \/ SameId(gym_team_changes', r) = {r}
          \/ /\ SameId(gym_team_changes', r) = {}
             /\ started' = started + 1
             /\ r.changed_at < now - retentionSeconds
     /\ reply' # reply =>
          gym_history' = gym_history /\ gym_team_changes' = gym_team_changes]_vars

\* A request has been answered from tables of which a run has swept rows and
\* kept others.
C13_Witness ==
  /\ Answered
  /\ gym_history # {} /\ gym_team_changes # {}
  /\ Cardinality(gym_history) < historyAutoInc - 1
  /\ Cardinality(gym_team_changes) < changesAutoInc - 1

\* The (duration, bucket) pairs of the periods, in seconds.
PeriodPairs ==
  [k \in {"6h", "12h", "24h", "48h", "7d"} |->
     CASE k = "6h"  -> <<21600, 300>>
       [] k = "12h" -> <<43200, 300>>
       [] k = "24h" -> <<86400, 300>>
       [] k = "48h" -> <<172800, 900>>
       [] k = "7d"  -> <<604800, 3600>>]

\* The samples inside the window of the answered period.
WindowSamples ==
  {r \in gym_history : r.timestamp >= now - PeriodPairs[reply.response.period][1]}

\* The samples of the window in the bucket that starts at start.
BucketSamples(start) ==
  LET width == PeriodPairs[reply.response.period][2]
  IN  {r \in WindowSamples : start <= r.timestamp /\ r.timestamp < start + width}

\* The average of a column over rows, rounded to the nearest integer.
RoundedAverage(rows, column) ==
  (2 * SumOf(rows, column) + Cardinality(rows)) \div (2 * Cardinality(rows))

\* The chart points of the answer.
Points == {reply.response.chartData[k] : k \in DOMAIN reply.response.chartData}

\* C14 as stated: every chart point carries, for mystic, valor, instinct and
\* total, the rounded average of the column over the samples of its bucket.
C14_PointIsRoundedAverage ==
  Answered =>
    \A pt \in Points :
      LET rows == BucketSamples(pt.time \div 1000)
      IN  /\ rows # {}
          /\ pt.mystic = RoundedAverage(rows, "team_mystic")
          /\ pt.valor = RoundedAverage(rows, "team_valor")
          /\ pt.instinct = RoundedAverage(rows, "team_instinct")
          /\ pt.total = RoundedAverage(rows, "total_gyms")

\* C14 amended: mystic, valor and instinct of a chart point are the rounded
\* averages over the samples of its bucket; total is the rounded average of
\* total_gyms, or the sum of the three rounded team averages when that is
\* greater.
C14_PointAverages ==
  Answered =>
    \A pt \in Points :
      LET rows == BucketSamples(pt.time \div 1000)
      IN  /\ rows # {}
          /\ pt.mystic = RoundedAverage(rows, "team_mystic")
          /\ pt.valor = RoundedAverage(rows, "team_valor")
          /\ pt.instinct = RoundedAverage(rows, "team_instinct")
          /\ pt.total = Max(RoundedAverage(rows, "total_gyms"),
                            pt.mystic + pt.valor + pt.instinct)

\* Three samples with totals 10, 20 and 30 share a bucket whose point has
\* total 20.
C14_Witness ==
  /\ Answered
  /\ \E pt \in Points :
       /\ {r.total_gyms : r \in BucketSamples(pt.time \div 1000)} = {10, 20, 30}
       /\ pt.total = 20

\* C15: the chart has one point for each bucket floor(timestamp / bucket) *
\* bucket that holds a sample with timestamp >= now - duration, for the fixed
\* pairs of the periods, with time the bucket start in ms, in strictly
\* ascending order, computed from the samples of the window only.
C15_WindowAndBuckets ==
  Answered =>
    LET chart == reply.response.chartData
        width == PeriodPairs[reply.response.period][2]
        starts == {(r.timestamp \div width) * width : r \in WindowSamples}
    IN  /\ {pt.time : pt \in Points} = {b * 1000 : b \in starts}
        /\ Len(chart) = Cardinality(starts)
        /\ \A k \in 1..(Len(chart) - 1) : chart[k].time < chart[k + 1].time
        /\ \A pt \in Points :
             /\ pt.mystic = RoundedAverage(BucketSamples(pt.time \div 1000), "team_mystic")
             /\ pt.valor = RoundedAverage(BucketSamples(pt.time \div 1000), "team_valor")
             /\ pt.instinct = RoundedAverage(BucketSamples(pt.time \div 1000), "team_instinct")

\* The 6h chart has two points; the store holds a sample one second older
\* than the window in the bucket of the first point, which carries the values
\* of the sample at the start of the window alone.
C15_Witness ==
  /\ Answered
  /\ reply.response.period = "6h"
  /\ Len(reply.response.chartData) >= 2
  /\ \E r \in gym_history, x \in gym_history :
       /\ r.timestamp = now - 21600 /\ x.timestamp = now - 21601
       /\ reply.response.chartData[1].time = ((r.timestamp \div 300) * 300) * 1000
       /\ reply.response.chartData[1].mystic = r.team_mystic
       /\ x.team_mystic # r.team_mystic

\* The counts of the answer are those of sample r, total re-derived.
CountsFrom(r) ==
  /\ reply.response.currentCounts.mystic = r.team_mystic
  /\ reply.response.currentCounts.valor = r.team_valor
  /\ reply.response.currentCounts.instinct = r.team_instinct
  /\ reply.response.currentCounts.total =
       Max(r.total_gyms, r.team_mystic + r.team_valor + r.team_instinct)
  /\ reply.response.lastUpdated = r.timestamp * 1000

\* C16: currentCounts and lastUpdated come from a sample with the greatest
\* timestamp of the whole table, whatever the period; with no sample they are
\* zero and the epoch.
C16_CurrentFromLatest ==
  Answered =>
    IF gym_history = {}
    THEN reply.response.currentCounts = ZeroCounts /\ reply.response.lastUpdated = 0
    ELSE \E r \in gym_history :
           /\ \A x \in gym_history : x.timestamp <= r.timestamp
           /\ CountsFrom(r)

\* An answer for 6h whose window holds no sample carries the counts of the
\* latest sample of the table.
C16_Witness ==
  /\ Answered
  /\ reply.response.period = "6h"
  /\ reply.response.chartData = <<>>
  /\ reply.response.currentCounts.total > 0
  /\ reply.response.lastUpdated > 0

\* C17: in every answer each chart point and currentCounts have total >=
\* mystic + valor + instinct, total being the greater of the recorded total
\* (the rounded average of total_gyms of the bucket, total_gyms of the latest
\* sample) and that sum.
C17_TotalRederived ==
  reply.called =>
    /\ \A pt \in Points :
         /\ pt.total >= pt.mystic + pt.valor + pt.instinct
         /\ pt.total = Max(RoundedAverage(BucketSamples(pt.time \div 1000), "total_gyms"),
                            pt.mystic + pt.valor + pt.instinct)
    /\ LET c == reply.response.currentCounts
       IN  /\ c.total >= c.mystic + c.valor + c.instinct
           /\ Answered /\ gym_history # {} =>
                \E r \in gym_history :
                  /\ r.timestamp * 1000 = reply.response.lastUpdated
                  /\ c.total = Max(r.total_gyms, c.mystic + c.valor + c.instinct)

\* The latest sample records a total below the sum of its team counts; the
\* answer carries the sum in currentCounts and in the point of its bucket.
C17_Witness ==
  /\ Answered
  /\ \E r \in gym_history :
       /\ r.timestamp * 1000 = reply.response.lastUpdated
       /\ r.total_gyms < r.team_mystic + r.team_valor + r.team_instinct
       /\ reply.response.currentCounts.total = r.team_mystic + r.team_valor + r.team_instinct
       /\ \E pt \in Points :
            /\ BucketSamples(pt.time \div 1000) = {r}
            /\ pt.total = r.team_mystic + r.team_valor + r.team_instinct

\* C18: a request whose period is none of the five keys is answered as a
\* request for "24h" on the same store at the same time is, with period "24h".
C18_UnknownPeriodIs24h ==
  (reply.called /\ reply.param \notin {"6h", "12h", "24h", "48h", "7d"}) =>
    /\ reply.response.period = "24h"
    /\ Answered =>
         reply.response \in Responses("24h", gym_history, gym_team_changes, fenced, now)

\* A request for "1y" has been answered with the chart of 24h, which a
\* request for 6h on the same store would not get.
C18_Witness ==
  /\ Answered
  /\ reply.param = "1y"
  /\ reply.response.period = "24h"
  /\ reply.response.chartData # <<>>
  /\ \A r \in Responses("6h", gym_history, gym_team_changes, fenced, now) :
       r.chartData # reply.response.chartData

\* The changes of gym g inside the window of the answered period.
WindowChanges(g) ==
  {r \in gym_team_changes :
     r.gym_id = g /\ r.changed_at >= now - PeriodPairs[reply.response.period][1]}

\* The gyms inside the geofence with a change inside the window.
Candidates == {g \in fenced : WindowChanges(g) # {}}

\* C19: contestedGyms holds at most 20 gyms of the region, the 20 (or all)
\* with the highest change_count, each once, with change_count the number of
\* its changes with changed_at >= now - duration and last_changed the latest
\* of them, ordered by change_count descending and for equal change_count by
\* last_changed descending.
C19_ContestedRanking ==
  Answered =>
    LET c == reply.response.contestedGyms
        listed == {c[k].gym_id : k \in DOMAIN c}
    IN  /\ Len(c) <= 20
        /\ Len(c) = (IF Cardinality(Candidates) < 20 THEN Cardinality(Candidates) ELSE 20)
        /\ Cardinality(listed) = Len(c)
        /\ listed \subseteq Candidates
        /\ \A k \in DOMAIN c :
             /\ c[k].change_count = Cardinality(WindowChanges(c[k].gym_id))
             /\ \E r \in WindowChanges(c[k].gym_id) :
                  /\ c[k].last_changed = r.changed_at * 1000
                  /\ \A x \in WindowChanges(c[k].gym_id) : x.changed_at <= r.changed_at
             /\ \A g \in Candidates \ listed :
                  Cardinality(WindowChanges(g)) <= c[k].change_count
        /\ \A k \in 1..(Len(c) - 1) :
             \/ c[k].change_count > c[k + 1].change_count
             \/ /\ c[k].change_count = c[k + 1].change_count
                /\ c[k].last_changed >= c[k + 1].last_changed

\* More than 20 gyms of the region have changes in the window; the answer
\* lists 20, the two in front with equal change_count and the later
\* last_changed first.
C19_Witness ==
  /\ Answered
  /\ Cardinality(Candidates) > 20
  /\ Len(reply.response.contestedGyms) = 20
  /\ reply.response.contestedGyms[1].change_count = reply.response.contestedGyms[2].change_count
  /\ reply.response.contestedGyms[1].last_changed > reply.response.contestedGyms[2].last_changed

\* The changes of gym g whose owners differ once 0 and NULL are one value.
RealChanges(g) ==
  {r \in gym_team_changes :
     /\ r.gym_id = g
     /\ (IF r.old_team_id \in {0, NULL} THEN NULL ELSE r.old_team_id)
          # (IF r.new_team_id \in {0, NULL} THEN NULL ELSE r.new_team_id)}

\* Entry e of recent_changes renders row r.
Renders(e, r) ==
  /\ e.timestamp = r.changed_at * 1000
  /\ e.from = (IF r.old_team_id \in {0, NULL} THEN NULL ELSE r.old_team_id)
  /\ e.to = (IF r.new_team_id \in {0, NULL} THEN NULL ELSE r.new_team_id)

\* C20: recent_changes of a contested gym holds at most 5 entries, the most
\* recent first; they are the gym's most recent changes whose owners differ
\* after 0 and NULL are mapped to one value, and no entry has equal from and
\* to.
C20_RecentChanges ==
  Answered =>
    \A k \in DOMAIN reply.response.contestedGyms :
      LET g == reply.response.contestedGyms[k].gym_id
          rc == reply.response.contestedGyms[k].recent_changes
          At(t) == {r \in RealChanges(g) : r.changed_at * 1000 = t}
          EntriesAt(t) == {j \in DOMAIN rc : rc[j].timestamp = t}
      IN  /\ Len(rc) <= 5
          /\ Len(rc) = (IF Cardinality(RealChanges(g)) < 5
                        THEN Cardinality(RealChanges(g)) ELSE 5)
          /\ \A j \in 1..(Len(rc) - 1) : rc[j].timestamp >= rc[j + 1].timestamp
          /\ \A j \in DOMAIN rc :
               /\ rc[j].from # rc[j].to
               /\ \E r \in RealChanges(g) : Renders(rc[j], r)
               /\ Cardinality(EntriesAt(rc[j].timestamp)) <= Cardinality(At(rc[j].timestamp))
          /\ \A r \in RealChanges(g) :
               (rc # <<>> /\ r.changed_at * 1000 > rc[Len(rc)].timestamp) =>
                 \E j \in DOMAIN rc : Renders(rc[j], r)

\* A contested gym with more than five real changes and changes between 0 and
\* NULL shows five entries.
C20_Witness ==
  /\ Answered
  /\ \E k \in DOMAIN reply.response.contestedGyms :
       LET g == reply.response.contestedGyms[k].gym_id
       IN  /\ Len(reply.response.contestedGyms[k].recent_changes) = 5
           /\ Cardinality(RealChanges(g)) > 5
           /\ \E r \in gym_team_changes :
                r.gym_id = g /\ r \notin RealChanges(g)
                  /\ r.changed_at * 1000 > reply.response.contestedGyms[k].recent_changes[5].timestamp

\* C21: change_count of a contested gym counts every change of the gym in the
\* window, first observations (old owner NULL) and changes between 0 and NULL
\* included; recent_changes is empty exactly when the gym has no change whose
\* owners differ after 0 and NULL are one value.
C21_CountsEveryChange ==
  Answered =>
    \A k \in DOMAIN reply.response.contestedGyms :
      LET e == reply.response.contestedGyms[k]
          inWindow == WindowChanges(e.gym_id)
          first == {r \in inWindow : r.old_team_id = NULL}
          later == {r \in inWindow : r.old_team_id # NULL}
      IN  /\ e.change_count = Cardinality(first) + Cardinality(later)
          /\ e.change_count >= Cardinality(inWindow \ RealChanges(e.gym_id))
          /\ (e.recent_changes = <<>>) <=> (RealChanges(e.gym_id) = {})

\* A gym whose only change is a first observation without owner is listed
\* with change_count 1 and no recent change.
C21_Witness ==
  /\ Answered
  /\ \E k \in DOMAIN reply.response.contestedGyms :
       /\ reply.response.contestedGyms[k].change_count = 1
       /\ reply.response.contestedGyms[k].recent_changes = <<>>
       /\ \E r \in WindowChanges(reply.response.contestedGyms[k].gym_id) :
            r.old_team_id = NULL /\ r.new_team_id = NULL

\* ------------------------------------- the query layer's other operations

\* The gyms fetchGymSnapshot lists for a team: the ids of the rows, the order
\* of g.updated left out.
TeamGyms(g, rows, team) == {i \in rows : g[i].team_id = team}

\* DEFAULT_GYM_RESULT.
DEFAULT_GYM_RESULT ==
  [mystic |-> {}, valor |-> {}, instinct |-> {},
   counts |-> [mystic |-> 0, valor |-> 0, instinct |-> 0]]

\* The result fetchGymSnapshot builds from the rows of its query: the gyms of
\* table g that are enabled, inside the geofence and updated inside the time
\* window. A defenders column that does not parse becomes [] and the gym is
\* listed all the same.
GymSnapshot(g, rows) ==
  [mystic   |-> TeamGyms(g, rows, 1),
   valor    |-> TeamGyms(g, rows, 2),
   instinct |-> TeamGyms(g, rows, 3),
   counts   |-> [mystic   |-> Cardinality(TeamGyms(g, rows, 1)),
                 valor    |-> Cardinality(TeamGyms(g, rows, 2)),
                 instinct |-> Cardinality(TeamGyms(g, rows, 3))]]

\* An element of a defenders list: an object with pokemon_id and
\* cp_when_deployed (NULL: absent or not numeric; form and costume absent),
\* the JSON value null, or a number.
Defender(id, cp) == [kind |-> "object", pokemon_id |-> id, cp_when_deployed |-> cp]
NullItem == [kind |-> "null", pokemon_id |-> 0, cp_when_deployed |-> NULL]
NumberItem == [kind |-> "number", pokemon_id |-> 0, cp_when_deployed |-> NULL]

\* The column gym.defenders: NULL, text that is not JSON, JSON that is not an
\* array, or a JSON array.
Payload(kind, items) == [kind |-> kind, items |-> items]

\* The payloads of the rows under StatsSpec.
Payloads ==
  {Payload("null", <<>>),
   Payload("invalid", <<>>),
   Payload("scalar", <<>>),
   Payload("list", <<Defender(25, 100)>>),
   Payload("list", <<Defender(25, 100), Defender(25, 201), Defender(150, NULL)>>),
   Payload("list", <<Defender(0, 500), NumberItem, Defender(150, 300)>>),
   Payload("list", <<Defender(25, 100), NullItem>>)}

\* The rows of the defender query: team_id IN (1, 2, 3) and the payload.
StatsRow(team, payload) == [team_id |-> team, defenders |-> payload]

\* toNumber(value): 0 for what is not a finite number.
toNumber(value) == IF value = NULL THEN 0 ELSE value

\* Math.round(a / n) for a >= 0 and n > 0.
RoundDiv(a, n) == (2 * a + n) \div (2 * n)

\* teamStats[t] before the loop.
NoTeam == [species |-> <<>>, defenders |-> NoMap, totalDefenders |-> 0, totalCp |-> 0]

\* The inner loop over the defenders of one row; threw is the TypeError of
\* reading pokemon_id of null.
RECURSIVE AddDefenders(_, _)
AddDefenders(items, acc) ==
  IF items = <<>> \/ acc.threw THEN acc
  ELSE LET defender == Head(items)
           team == acc.team
           key == defender.pokemon_id
           cp == toNumber(defender.cp_when_deployed)
       IN  IF defender.kind = "null" THEN [acc EXCEPT !.threw = TRUE]
           ELSE IF defender.kind = "number" \/ defender.pokemon_id = 0
           THEN AddDefenders(Tail(items), acc)
           ELSE AddDefenders(Tail(items),
                  [acc EXCEPT !.team =
                     [species |-> IF key \in DOMAIN team.defenders
                                  THEN team.species ELSE Append(team.species, key),
                      defenders |->
                        IF key \in DOMAIN team.defenders
                        THEN [team.defenders EXCEPT ![key] =
                                [pokemon_id |-> key,
                                 count |-> @.count + 1,
                                 total_cp |-> @.total_cp + cp,
                                 avg_cp |-> RoundDiv(@.total_cp + cp, Max(@.count + 1, 1))]]
                        ELSE (key :> [pokemon_id |-> key, count |-> 1,
                                      total_cp |-> cp, avg_cp |-> cp])
                               @@ team.defenders,
                      totalDefenders |-> team.totalDefenders + 1,
                      totalCp |-> team.totalCp + cp]])

\* RowOutcome without the inner catch of JSON.parse.
RowOutcome_ParseFatal(row) ==
  CASE row.defenders.kind = "null" -> "skip"
    [] row.defenders.kind = "invalid" -> "throw"
    [] row.defenders.kind = "scalar" -> "skip"
    [] OTHER -> "loop"

\* What the loop does with a row before it reads the defenders: "skip" is the
\* continue after a falsy column, after the inner catch of JSON.parse and
\* after a value that is not an array; "loop" enters the inner loop; an error
\* that left the inner try would be "throw".
RowOutcome(row) ==
  CASE row.defenders.kind = "null" -> "skip"
    [] row.defenders.kind = "invalid" -> "skip"
    [] row.defenders.kind = "scalar" -> "skip"
    [] OTHER -> "loop"

\* The loop over the rows.
RECURSIVE AddRows(_, _)
AddRows(rows, stats) ==
  IF rows = <<>> \/ stats.threw THEN stats
  ELSE LET row == Head(rows)
           done == AddDefenders(row.defenders.items,
                                [threw |-> FALSE, team |-> stats.teams[row.team_id]])
       IN  CASE RowOutcome(row) = "skip" -> AddRows(Tail(rows), stats)
             [] RowOutcome(row) = "throw" -> [stats EXCEPT !.threw = TRUE]
             [] OTHER ->
                  AddRows(Tail(rows),
                          [threw |-> done.threw,
                           teams |-> [stats.teams EXCEPT ![row.team_id] = done.team]])

\* Array.prototype.sort((a, b) => b.count - a.count): stable.
RECURSIVE SortByCount(_)
SortByCount(list) ==
  IF list = <<>> THEN <<>>
  ELSE LET k == CHOOSE i \in 1..Len(list) :
                  /\ \A j \in 1..Len(list) : list[j].count <= list[i].count
                  /\ \A j \in 1..(i - 1) : list[j].count < list[i].count
       IN  <<list[k]>> \o SortByCount(SubSeq(list, 1, k - 1) \o SubSeq(list, k + 1, Len(list)))

\* The TeamStats of one team.
TeamStatsOf(teamId, team) ==
  LET defenders == SortByCount([k \in 1..Len(team.species) |-> team.defenders[team.species[k]]])
  IN  [team_id |-> teamId,
       total_defenders |-> team.totalDefenders,
       unique_species |-> Len(defenders),
       top_defenders |-> SubSeq(defenders, 1, IF Len(defenders) < 10 THEN Len(defenders) ELSE 10),
       total_cp |-> team.totalCp,
       avg_cp_per_defender |-> IF team.totalDefenders # 0
                               THEN RoundDiv(team.totalCp, team.totalDefenders) ELSE 0]

\* DEFAULT_STATS (the timestamp of the module's load left out).
DEFAULT_STATS == [teams |-> <<>>, total_defenders_all_teams |-> 0]

\* The result fetchDefenderStats builds from the rows of its query; an error
\* thrown in the loop is caught and gives DEFAULT_STATS.
DefenderStats(rows) ==
  LET stats == AddRows(rows, [threw |-> FALSE, teams |-> [t \in 1..3 |-> NoTeam]])
      teams == [t \in 1..3 |-> TeamStatsOf(t, stats.teams[t])]
  IN  IF stats.threw THEN DEFAULT_STATS
      ELSE [teams |-> teams,
            total_defenders_all_teams |->
              teams[1].total_defenders + teams[2].total_defenders + teams[3].total_defenders]

\* --------------------------------------- the query layer, read by read

\* The three ensureIdentifier calls at the head of each query-layer function.
ConfigThrows ==
  \/ EnsureIdentifierThrows(env.DB_NAME)
  \/ EnsureIdentifierThrows(env.GEOFENCE_DB_NAME)
  \/ EnsureIdentifierThrows(env.GEOFENCE_ID)

\* The awaits of fetchGymHistory, in order.
ReadSteps == {"history", "latest", "contested", "recent"}

\* CatchResponse that keeps the chartData already read.
CatchResponse_Partial(key, c) == [EmptyResponse(key) EXCEPT !.chartData = c.chartData]

\* What the catch blocks of fetchGymHistory return, whatever the locals c of
\* the call hold when the error arrives.
CatchResponse(key, c) == EmptyResponse(key)

\* The rest of the state when the web layer takes a step.
WebFrame == UNCHANGED <<now, store, autoInc, ctl, txReads, txWrites, runs, fenced, env, gate, panel>>

\* fetchGymHistory up to its first await: the period key and the
\* configuration; a configuration error returns from the first catch.
BeginHistory(param) ==
  /\ call.pc = "idle"
  /\ ~reply.called
  /\ LET key == PeriodKey(RoutePeriod(param))
         c == [call EXCEPT !.op = "history", !.param = param, !.key = key,
                           !.history = gym_history, !.changes = gym_team_changes]
     IN  IF ConfigThrows
         THEN /\ call' = [c EXCEPT !.pc = "caught", !.at = "config"]
              /\ reply' = [called |-> TRUE, param |-> param, error |-> TRUE,
                           response |-> CatchResponse(key, c)]
         ELSE /\ call' = [c EXCEPT !.pc = "history"]
              /\ reply' = reply
  /\ WebFrame

\* The history query answers: chartData.
ReadHistory ==
  /\ call.pc = "history"
  /\ \E rows \in {OrderByBucket(
                     HistoryGroups(gym_history, now, PERIOD_CONFIG[call.key].duration,
                                   PERIOD_CONFIG[call.key].bucket))} :
       \E chartData \in {buildChartData(rows)} :
         call' = [call EXCEPT !.chartData = chartData, !.pc = "latest"]
  /\ reply' = reply
  /\ WebFrame

\* The latest query answers: currentCounts and lastUpdated.
ReadLatest ==
  /\ call.pc = "latest"
  /\ \E l \in Latests(gym_history, now, PERIOD_CONFIG[call.key].duration) :
       call' = [call EXCEPT !.currentCounts = l.currentCounts,
                            !.lastUpdated = l.lastUpdated,
                            !.pc = "contested"]
  /\ reply' = reply
  /\ WebFrame

\* The contested query answers: contestedRows.
ReadContested ==
  /\ call.pc = "contested"
  /\ \E rows \in ContestedRows(gym_team_changes, fenced, now,
                               PERIOD_CONFIG[call.key].duration) :
       call' = [call EXCEPT !.contestedRows = rows, !.pc = "recent"]
  /\ reply' = reply
  /\ WebFrame

\* The recent query answers (it is not sent when contestedRows is empty) and
\* fetchGymHistory returns the response.
ReadRecent ==
  /\ call.pc = "recent"
  /\ \E c \in ContestedLists(call.contestedRows, gym_team_changes) :
       reply' = [called |-> TRUE, param |-> call.param, error |-> FALSE,
                 response |-> [period        |-> call.key,
                               chartData     |-> call.chartData,
                               contestedGyms |-> c,
                               currentCounts |-> call.currentCounts,
                               lastUpdated   |-> call.lastUpdated]]
  /\ call' = [call EXCEPT !.pc = "returned"]
  /\ WebFrame

\* The read that fetchGymHistory awaits rejects: the second catch returns.
ReadRejects ==
  /\ call.pc \in ReadSteps
  /\ call.pc = "recent" => call.contestedRows # <<>>
  /\ call' = [call EXCEPT !.pc = "caught", !.at = call.pc]
  /\ reply' = [called |-> TRUE, param |-> call.param, error |-> TRUE,
               response |-> CatchResponse(call.key, call)]
  /\ WebFrame

\* fetchGymSnapshot: the configuration, the one query and the loop.
FetchGymSnapshot ==
  /\ call.pc = "idle"
  /\ ~reply.called
  /\ \/ /\ ConfigThrows
        /\ call' = [call EXCEPT !.op = "snapshot", !.pc = "caught", !.at = "config",
                                !.result = DEFAULT_GYM_RESULT]
     \/ /\ ~ConfigThrows
        /\ call' = [call EXCEPT !.op = "snapshot", !.pc = "caught", !.at = "gym",
                                !.result = DEFAULT_GYM_RESULT]
     \/ /\ ~ConfigThrows
        /\ \E g \in GymTables :
             \E rows \in SUBSET InRegion(g) :
               call' = [call EXCEPT !.op = "snapshot", !.pc = "returned",
                                    !.rows = <<g, rows>>,
                                    !.result = GymSnapshot(g, rows)]
  /\ reply' = reply
  /\ WebFrame

\* fetchDefenderStats: the configuration, the one query returning rows, and
\* the loops.
FetchDefenderStats(rows) ==
  /\ call.pc = "idle"
  /\ ~reply.called
  /\ \/ /\ ConfigThrows
        /\ call' = [call EXCEPT !.op = "stats", !.pc = "caught", !.at = "config",
                                !.result = DEFAULT_STATS]
     \/ /\ ~ConfigThrows
        /\ call' = [call EXCEPT !.op = "stats", !.pc = "caught", !.at = "gym",
                                !.result = DEFAULT_STATS]
     \/ /\ ~ConfigThrows
        /\ call' = [call EXCEPT !.op = "stats",
                                !.pc = IF DefenderStats(rows) = DEFAULT_STATS
                                       THEN "caught" ELSE "returned",
                                !.at = IF DefenderStats(rows) = DEFAULT_STATS
                                       THEN "loop" ELSE "none",
                                !.rows = rows,
                                !.result = DefenderStats(rows)]
  /\ reply' = reply
  /\ WebFrame

\* A run of the collector commits while a call of fetchGymHistory is between
\* two of its reads.
CommitDuringCall ==
  /\ call.pc \in ReadSteps
  /\ started = 0
  /\ CollectSnapshot

\* Configurations of the server: complete, without GEOFENCE_ID, and with a
\* GEOFENCE_ID or a DB_NAME that is not /^\w+$/.
ServerEnvs ==
  {ValidEnv,
   [ValidEnv EXCEPT !.GEOFENCE_ID = Unset],
   [ValidEnv EXCEPT !.GEOFENCE_ID = <<"a", "-", "1">>],
   [ValidEnv EXCEPT !.DB_NAME = <<"a", "-">>]}

\* Rows of the defender query under ReadsSpec.
StatsTables ==
  {<<>>,
   <<StatsRow(1, Payload("list", <<Defender(25, 100)>>)),
     StatsRow(2, Payload("invalid", <<>>))>>,
   <<StatsRow(3, Payload("list", <<Defender(25, 100), NullItem>>))>>}

\* A store as the query layer can find it (changes of the gyms the collector
\* of this model observes), and a configuration.
ReadsInit ==
  /\ IdleCollector
  /\ now = ArchiveNow
  /\ gym_history \in {S \in SUBSET ArchiveSamples : Cardinality(S) <= MaxSamples}
  /\ gym_team_changes \in {C \in ArchiveChangeSets : GymIdsOf(C) \subseteq Gyms}
  /\ historyAutoInc = Cardinality(ArchiveSamples) + 1
  /\ changesAutoInc = Cardinality(ArchiveCrowd) + 1
  /\ retentionSeconds = DefaultRetention
  /\ fenced = ArchiveFenced
  /\ env \in ServerEnvs
  /\ call = NoCall
  /\ gate = NoGate
  /\ panel = NoPanel

\* One call of the query layer, and a run of the collector beside it.
ReadsNext ==
  \/ \E param \in PeriodParams : BeginHistory(param)
  \/ ReadHistory
  \/ ReadLatest
  \/ ReadContested
  \/ ReadRecent
  \/ ReadRejects
  \/ CommitDuringCall
  \/ FetchGymSnapshot
  \/ \E rows \in StatsTables : FetchDefenderStats(rows)

ReadsSpec == ReadsInit /\ [][ReadsNext]_vars

\* C22: a call of fetchGymHistory, fetchGymSnapshot or fetchDefenderStats that
\* meets a missing or invalid configuration or a failing read, the first or a
\* later one, ends in its catch block and returns the empty shape; for
\* fetchGymHistory no field carries what the earlier reads returned. A
\* configuration error ends the call before any read.
C22_EmptyShapeOnFailure ==
  /\ (call.op = "history" /\ call.pc = "caught") =>
       /\ reply.called
       /\ reply.response = [period        |-> call.key,
                            chartData     |-> <<>>,
                            contestedGyms |-> <<>>,
                            currentCounts |-> [mystic |-> 0, valor |-> 0,
                                               instinct |-> 0, total |-> 0],
                            lastUpdated   |-> 0]
  /\ (call.op = "snapshot" /\ call.pc = "caught") =>
       call.result = [mystic |-> {}, valor |-> {}, instinct |-> {},
                      counts |-> [mystic |-> 0, valor |-> 0, instinct |-> 0]]
  /\ (call.op = "stats" /\ call.pc = "caught") =>
       call.result = [teams |-> <<>>, total_defenders_all_teams |-> 0]
  /\ (ConfigThrows /\ call.pc # "idle") => (call.pc = "caught" /\ call.at = "config")
  /\ (call.pc = "returned" /\ call.op = "history") => Answered

\* The contested query of a call rejected after the history and the latest
\* query had returned a chart and counts; the answer is the empty shape.
C22_Witness ==
  /\ call.op = "history"
  /\ call.pc = "caught"
  /\ call.at = "contested"
  /\ call.chartData # <<>>
  /\ call.currentCounts.total > 0
  /\ reply.response.chartData = <<>>
  /\ reply.response.currentCounts.total = 0

\* C23: the response of a call of fetchGymHistory beside which a run of the
\* collector commits is a response to the store as it was before that commit
\* or to the store as it is after it.
C23_OneStoreState ==
  (Answered /\ call.op = "history") =>
    \/ reply.response \in Responses(call.key, call.history, call.changes, fenced, now)
    \/ reply.response \in Responses(call.key, gym_history, gym_team_changes, fenced, now)

\* ------------------------------------------ the collector's configuration

\* The head of collectGymHistory: ensure for DB_HOST, DB_USER, DB_PASS and
\* GEOFENCE_ID, ensureIdentifier for DB_NAME and GEOFENCE_DB_NAME.
CollectorConfigThrows ==
  \/ EnsureThrows(env.DB_HOST)
  \/ EnsureThrows(env.DB_USER)
  \/ EnsureThrows(env.DB_PASS)
  \/ EnsureIdentifierThrows(env.DB_NAME)
  \/ EnsureIdentifierThrows(env.GEOFENCE_DB_NAME)
  \/ EnsureThrows(env.GEOFENCE_ID)

\* pool.getConnection() resolves: the store knows the account.
ConnectionAccepted ==
  env.DB_USER = ValidEnv.DB_USER /\ env.DB_PASS = ValidEnv.DB_PASS

\* An invocation of the collector that throws before the try block: a
\* configuration error, or getConnection rejecting; process.exit(1).
CollectRejected ==
  /\ call.pc = "idle"
  /\ ~reply.called
  /\ started = 0
  /\ CollectorConfigThrows \/ ~ConnectionAccepted
  /\ started' = started + 1
  /\ pc' = [pc EXCEPT ![1] = "failed"]
  /\ UNCHANGED <<now, store, autoInc, retentionSeconds, overlapped, txReads, txWrites,
                 runs, fenced, reply, web>>

\* An invocation of the collector whose configuration passes and that runs
\* to its commit.
CollectAccepted ==
  /\ call.pc = "idle"
  /\ started = 0
  /\ ~CollectorConfigThrows
  /\ ConnectionAccepted
  /\ CollectSnapshot

\* The values a variable of the configuration takes under ConfigSpec: unset,
\* a word, and a value with a character outside \w.
ConfigValues == {Unset, <<"a">>, <<"a", "-", "1">>}

\* Configurations of collector and server.
ConfigEnvs ==
  {e \in [DOMAIN ValidEnv -> ConfigValues \cup {ValidEnv.DB_NAME}] :
     /\ e.INTERNAL_API_SECRET = ValidEnv.INTERNAL_API_SECRET
     /\ e.DB_HOST \in {Unset, ValidEnv.DB_HOST}
     /\ e.DB_NAME # <<"a">>
     /\ \A k \in DOMAIN ValidEnv \ {"DB_NAME"} : e[k] # ValidEnv.DB_NAME}

\* Empty tables and a configuration.
ConfigInit ==
  /\ IdleCollector
  /\ now = CHOOSE t \in QueryClock : \A u \in QueryClock : t <= u
  /\ gym_history = {}
  /\ gym_team_changes = {}
  /\ historyAutoInc = 1
  /\ changesAutoInc = 1
  /\ retentionSeconds = DefaultRetention
  /\ fenced = Gyms
  /\ env \in ConfigEnvs
  /\ call = NoCall
  /\ gate = NoGate
  /\ panel = NoPanel

\* One invocation of the collector and one call of fetchGymHistory under the
\* same configuration.
ConfigNext ==
  \/ CollectRejected
  \/ CollectAccepted
  \/ \E param \in PeriodParams : BeginHistory(param)
  \/ ReadHistory
  \/ ReadLatest
  \/ ReadContested
  \/ ReadRecent
  \/ ReadRejects

ConfigSpec == ConfigInit /\ [][ConfigNext]_vars

\* C24: an invocation of the collector whose configuration lacks a value, or
\* whose account the store refuses, writes nothing; and it writes nothing
\* under a GEOFENCE_ID that fetchGymHistory rejects.
C24_CollectorRejectsBadConfig ==
  /\ (CollectorConfigThrows \/ ~ConnectionAccepted) =>
       gym_history = {} /\ gym_team_changes = {}
  /\ EnsureIdentifierThrows(env.GEOFENCE_ID) =>
       gym_history = {} /\ gym_team_changes = {}

\* ----------------------------------------------------- defender statistics

MaxRows == 2

\* The results of the defender query: up to MaxRows rows of teams 1 and 2
\* with the payloads of Payloads.
StatsRowLists ==
  UNION {[1..n -> {StatsRow(t, p) : t \in {1, 2}, p \in Payloads}] : n \in 0..MaxRows}

\* One call of fetchDefenderStats on the rows of its query.
StatsNext == \E rows \in StatsRowLists : FetchDefenderStats(rows)

\* Empty tables and a configuration of the server.
StatsInit ==
  /\ IdleCollector
  /\ now = ArchiveNow
  /\ gym_history = {}
  /\ gym_team_changes = {}
  /\ historyAutoInc = 1
  /\ changesAutoInc = 1
  /\ retentionSeconds = DefaultRetention
  /\ fenced = Gyms
  /\ env \in ServerEnvs
  /\ call = NoCall
  /\ gate = NoGate
  /\ panel = NoPanel

StatsSpec == StatsInit /\ [][StatsNext]_vars

\* The numbers a row adds to its team: the defenders of a JSON array that
\* have a pokemon_id, and their cp.
RECURSIVE CountedIn(_)
CountedIn(items) ==
  IF items = <<>> THEN [n |-> 0, cp |-> 0]
  ELSE LET rest == CountedIn(Tail(items))
           d == Head(items)
       IN  IF d.kind = "object" /\ d.pokemon_id # 0
           THEN [n |-> rest.n + 1,
                 cp |-> rest.cp + (IF d.cp_when_deployed = NULL THEN 0 ELSE d.cp_when_deployed)]
           ELSE rest

\* The sum of f over the rows of team t whose payload is a JSON array.
RECURSIVE TeamSum(_, _, _)
TeamSum(rows, t, field) ==
  IF rows = <<>> THEN 0
  ELSE (IF Head(rows).team_id = t /\ Head(rows).defenders.kind = "list"
        THEN CountedIn(Head(rows).defenders.items)[field] ELSE 0)
       + TeamSum(Tail(rows), t, field)

\* A row whose JSON array holds a null: reading its pokemon_id throws.
HasNullItem(rows) ==
  \E k \in DOMAIN rows : \E j \in DOMAIN rows[k].defenders.items :
    rows[k].defenders.items[j].kind = "null"

StoreSilent ==
  /\ call.pc \in ReadSteps
  /\ call.pc = "recent" => call.contestedRows # <<>>
  /\ \E how \in {"unreachable", "hung"} :
       call' = [call EXCEPT !.pc = how, !.at = call.pc]
  /\ reply' = reply
  /\ WebFrame

\* enableKeepAlive: the probes of the pool's socket to an unreachable host go
\* unanswered, the socket errors and the awaited read rejects with the
\* socket's error, which the catch block logs.
KeepAliveFails ==
  /\ call.pc = "unreachable"
  /\ call' = [call EXCEPT !.pc = "caught", !.at = "socket"]
  /\ reply' = [called |-> TRUE, param |-> call.param, error |-> TRUE,
               response |-> CatchResponse(call.key, call)]
  /\ WebFrame

\* What settles the promise a call awaits.
Settles ==
  \/ ReadHistory
  \/ ReadLatest
  \/ ReadContested
  \/ ReadRecent
  \/ ReadRejects
  \/ KeepAliveFails

\* One call of fetchGymHistory against a store that can go silent.
HangNext ==
  \/ \E param \in PeriodParams : BeginHistory(param)
  \/ StoreSilent
  \/ Settles

\* An awaited read that something can settle is settled in the end.
HangSpec == ReadsInit /\ [][HangNext]_vars /\ WF_vars(Settles)

\* C26: a call of fetchGymHistory that has been started returns, also when
\* the store stops answering one of its reads.
C26_CallReturns == (call.op = "history") ~> (call.pc \in {"returned", "caught"})

\* ------------------------------------------------ a run's own sample

\* C27: the sample a successful run appended is in gym_history when the run
\* has committed (its own sweep has not removed it), so the store holds at
\* least one sample after every successful run.
C27_OwnSampleKept ==
  runs # <<>> =>
    /\ runs[Len(runs)].hist \subseteq gym_history
    /\ gym_history # {}

\* ------------------------------------------- recent_changes and the window

\* The responses a call for the period key can return on the store as it is.
ResponsesUnder(key) == Responses(key, gym_history, gym_team_changes, fenced, now)

\* The recent_changes lists that the responses hold for gym g (none when the
\* gym is not ranked in them).
RecentIn(responses, g) ==
  UNION {{resp.contestedGyms[k].recent_changes :
            k \in {j \in DOMAIN resp.contestedGyms : resp.contestedGyms[j].gym_id = g}} :
         resp \in responses}

\* C28: recent_changes of a contested gym is taken from all the changes of
\* the gym in the store, not from those of the window: each entry renders a
\* change of the gym of any age, the list has min(5, number of real changes
\* in the store) entries, and under every other period key that ranks the gym
\* the same store yields the same lists.
C28_RecentNotWindowed ==
  Answered =>
    LET ranked == {reply.response.contestedGyms[k].gym_id :
                     k \in DOMAIN reply.response.contestedGyms}
        mine == ResponsesUnder(reply.response.period)
    IN  /\ \A k \in DOMAIN reply.response.contestedGyms :
             LET g == reply.response.contestedGyms[k].gym_id
                 rc == reply.response.contestedGyms[k].recent_changes
             IN  /\ \A j \in DOMAIN rc : \E r \in RealChanges(g) : Renders(rc[j], r)
                 /\ Len(rc) = (IF Cardinality(RealChanges(g)) < 5
                               THEN Cardinality(RealChanges(g)) ELSE 5)
                 /\ rc \in RecentIn(mine, g)
        /\ \A key \in PeriodKeys :
             LET other == ResponsesUnder(key)
             IN  \A g \in ranked :
                   RecentIn(other, g) # {} => RecentIn(other, g) = RecentIn(mine, g)

\* Witness: an answer for 6 h whose contested gym has one change inside the
\* window and three entries in recent_changes, one of them older than 6 h.
C28_Witness ==
  /\ Answered
  /\ reply.response.period = "6h"
  /\ \E k \in DOMAIN reply.response.contestedGyms :
       LET e == reply.response.contestedGyms[k]
       IN  /\ e.change_count = 1
           /\ Len(e.recent_changes) = 3
           /\ \E j \in DOMAIN e.recent_changes :
                e.recent_changes[j].timestamp < (now - 6 * 60 * 60) * 1000
           /\ RecentIn(ResponsesUnder("7d"), e.gym_id) = {e.recent_changes}

\* ---------------------------------------------------------- /api/gyms

MaxTokens == 2
MaxMoves == 3

TOKEN_TTL_MS == 60000

\* What a request carries as x-access-token: nothing (0), a token POST has
\* issued (1..Len(issued)), or a string no POST has issued (Forged).
Forged == NULL
Presented == {0, Forged} \cup 1..MaxTokens

\* The entries a cleanup removes, with no entry removed.
Stale_Never(expiresAt, t) == FALSE

\* cleanupExpiredTokens: the entries it removes.
Stale(expiresAt, t) == expiresAt <= t

\* cleanupExpiredTokens at clock value t.
cleanupExpiredTokens(tokens, t) ==
  [k \in {x \in DOMAIN tokens : ~Stale(tokens[x], t)} |-> tokens[k]]

\* validateToken with the clock read as first by the cleanup and as last by
\* the comparison: the verdict and the tokenStore it leaves.
validateToken(tokens, token, first, last) ==
  IF token = 0 THEN [ok |-> FALSE, tokenStore |-> tokens]
  ELSE LET kept == cleanupExpiredTokens(tokens, first)
       IN  IF token \notin DOMAIN kept THEN [ok |-> FALSE, tokenStore |-> kept]
           ELSE IF last > kept[token]
                THEN [ok |-> FALSE,
                      tokenStore |-> [k \in DOMAIN kept \ {token} |-> kept[k]]]
                ELSE [ok |-> TRUE, tokenStore |-> kept]

\* Boolean(process.env.INTERNAL_API_SECRET).
requireToken == env.INTERNAL_API_SECRET # Unset

\* The table gym while /api/gyms is observed: both gyms enabled and inside
\* the geofence, one of them held by mystic.
GateGyms == <<[team_id |-> 1, enabled |-> TRUE], [team_id |-> NULL, enabled |-> TRUE]>>

\* The calls of fetchGymSnapshot GET can await: DEFAULT_GYM_RESULT from the
\* catch block (the configuration or the query throws), or the snapshot of
\* the rows the query returns.
SnapshotCalls ==
  IF ConfigThrows
  THEN {[call EXCEPT !.op = "snapshot", !.pc = "caught", !.at = "config",
                     !.result = DEFAULT_GYM_RESULT]}
  ELSE {[call EXCEPT !.op = "snapshot", !.pc = "caught", !.at = "gym",
                     !.result = DEFAULT_GYM_RESULT],
        [call EXCEPT !.op = "snapshot", !.pc = "returned",
                     !.rows = <<GateGyms, InRegion(GateGyms)>>,
                     !.result = GymSnapshot(GateGyms, InRegion(GateGyms))]}

\* The rest of the state when /api/gyms answers a request.
GateFrame ==
  UNCHANGED <<now, store, autoInc, ctl, txReads, txWrites, runs, fenced, reply, env, panel>>

\* GET /api/gyms with or without x-invoke-path and with an x-access-token;
\* the clock moves by delay ms between the two Date.now() of validateToken.
GET(header, token, delay) ==
  /\ token \in {0, Forged} \cup 1..Len(gate.issued)
  /\ delay > 0 => gate.moved < MaxMoves
  /\ LET first == gate.time
         last == gate.time + delay
         moved == gate.moved + (IF delay > 0 THEN 1 ELSE 0)
         v == validateToken(gate.tokenStore, token, first, last)
         request == [method |-> "GET", status |-> 0, header |-> header, token |-> token,
                     readFirst |-> first, readLast |-> last, reached |-> FALSE]
     IN  IF ~header /\ requireToken
         THEN IF ~v.ok
              THEN /\ gate' = [gate EXCEPT !.time = last, !.moved = moved,
                                           !.tokenStore = v.tokenStore,
                                           !.last = [request EXCEPT !.status = 401]]
                   /\ call' = call
              ELSE /\ gate' = [gate EXCEPT !.time = last, !.moved = moved,
                                           !.tokenStore = v.tokenStore,
                                           !.last = [request EXCEPT !.status = 200,
                                                                    !.reached = TRUE]]
                   /\ call' \in SnapshotCalls
         ELSE /\ delay = 0
              /\ gate' = [gate EXCEPT !.last = [request EXCEPT !.status = 200,
                                                               !.reached = TRUE]]
              /\ call' \in SnapshotCalls
  /\ GateFrame

\* What a request carries as x-internal-secret.
Secrets == {Unset, <<"a">>, <<"1">>}

\* POST /api/gyms: createToken for the holder of the secret.
POST(providedSecret) ==
  /\ LET request == [method |-> "POST", status |-> 0, header |-> FALSE, token |-> 0,
                     readFirst |-> gate.time, readLast |-> gate.time, reached |-> FALSE]
     IN  IF env.INTERNAL_API_SECRET = Unset
         THEN gate' = [gate EXCEPT !.last = [request EXCEPT !.status = 400]]
         ELSE IF providedSecret = Unset \/ providedSecret # env.INTERNAL_API_SECRET
         THEN gate' = [gate EXCEPT !.last = [request EXCEPT !.status = 401]]
         ELSE /\ Len(gate.issued) < MaxTokens
              /\ LET token == Len(gate.issued) + 1
                 IN  gate' = [gate EXCEPT
                       !.tokenStore = (token :> (gate.time + TOKEN_TTL_MS)) @@ @,
                       !.issued = Append(@, gate.time),
                       !.last = [request EXCEPT !.status = 200, !.token = token]]
  /\ call' = call
  /\ GateFrame

\* Time passes between two requests: a millisecond, or a millisecond less
\* than the life of a token.
ClockMoves == {1, TOKEN_TTL_MS - 1}

ClockMove(d) ==
  /\ gate.moved < MaxMoves
  /\ gate' = [gate EXCEPT !.time = @ + d, !.moved = @ + 1]
  /\ call' = call
  /\ GateFrame

\* Configurations of the server with and without INTERNAL_API_SECRET, and
\* one whose query layer rejects its configuration.
GateEnvs ==
  {ValidEnv,
   [ValidEnv EXCEPT !.INTERNAL_API_SECRET = Unset],
   [ValidEnv EXCEPT !.GEOFENCE_ID = Unset]}

\* The server process after its start.
GateInit ==
  /\ IdleCollector
  /\ now = ArchiveNow
  /\ gym_history = {}
  /\ gym_team_changes = {}
  /\ historyAutoInc = 1
  /\ changesAutoInc = 1
  /\ retentionSeconds = DefaultRetention
  /\ fenced = Gyms
  /\ env \in GateEnvs
  /\ call = NoCall
  /\ gate = NoGate
  /\ panel = NoPanel

GateNext ==
  \/ \E header \in BOOLEAN, token \in Presented, delay \in {0, 1, 2} : GET(header, token, delay)
  \/ \E providedSecret \in Secrets : POST(providedSecret)
  \/ \E d \in ClockMoves : ClockMove(d)

GateSpec == GateInit /\ [][GateNext]_vars

\* The last request was a GET that reached the handler with a token POST has
\* issued and without x-invoke-path.
TokenUse ==
  /\ gate.last.method = "GET"
  /\ ~gate.last.header
  /\ gate.last.token \in 1..Len(gate.issued)

\* C29: with INTERNAL_API_SECRET configured, GET /api/gyms answers 200 only to
\* a request with x-invoke-path or with a token POST issued less than 60 s
\* before; every other request gets 401 and fetchGymSnapshot is not called;
\* a token is refused from 60 s after its issue on, and accepted whenever the
\* request is validated before that.
C29_GateServesAuthorized ==
  (gate.last.method = "GET" /\ env.INTERNAL_API_SECRET # <<>>) =>
    /\ gate.last.status \in {200, 401}
    /\ gate.last.status = 200 =>
         /\ gate.last.reached
         /\ \/ gate.last.header
            \/ /\ TokenUse
               /\ gate.last.readFirst < gate.issued[gate.last.token] + 60000
    /\ gate.last.status = 401 =>
         /\ ~gate.last.reached
         /\ ~gate.last.header
    /\ (TokenUse /\ gate.last.readFirst >= gate.issued[gate.last.token] + 60000) =>
         gate.last.status = 401
    /\ (TokenUse /\ gate.last.readLast < gate.issued[gate.last.token] + 60000) =>
         gate.last.status = 200

\* Witness: the second token, issued after the first had been refused as
\* expired, is accepted 59999 ms after its issue.
C29_Witness ==
  /\ env.INTERNAL_API_SECRET # <<>>
  /\ TokenUse
  /\ gate.last.token = 2
  /\ gate.last.status = 200
  /\ gate.last.readFirst = gate.issued[2] + 59999
  /\ 1 \notin DOMAIN gate.tokenStore

\* ------------------------------------------------------ GymHistoryChart

MaxFetches == 3

\* PERIODS.
PERIODS == {"6h", "12h", "24h", "48h", "7d"}

\* The rest of the state when the component takes a step.
PanelFrame ==
  UNCHANGED <<now, store, autoInc, ctl, txReads, txWrites, runs, fenced, reply, env, call, gate>>

\* fetchData up to its await, for the period of its closure: setError(null),
\* setLoading(true) unless a payload has been loaded, and the request.
StartFetch(p, period) ==
  [p EXCEPT !.error = FALSE,
            !.loading = IF p.hasLoaded THEN p.loading ELSE TRUE,
            !.fetches = p.fetches + 1,
            !.flights = p.flights \cup {[id |-> p.fetches + 1, period |-> period]}]

\* The effect: hasLoadedRef.current = false, setLoading(true), fetchData()
\* and the interval for the fetchData of this period.
Effect(p) == StartFetch([p EXCEPT !.hasLoaded = FALSE, !.loading = TRUE], p.period)

\* The component is mounted and its effect runs.
Mount ==
  /\ ~panel.mounted
  /\ panel' = Effect([panel EXCEPT !.mounted = TRUE])
  /\ PanelFrame

\* The interval fires: fetchData of the current period.
IntervalFires ==
  /\ panel.mounted
  /\ panel.fetches < MaxFetches
  /\ panel' = StartFetch(panel, panel.period)
  /\ PanelFrame

\* A click on the button of another period (the buttons are rendered when
\* loading is false and data is not null): setPeriod, then the cleanup of the
\* old effect (clearInterval) and the effect of the new fetchData.
SelectPeriod(value) ==
  /\ panel.mounted
  /\ ~panel.loading
  /\ panel.data # NoData
  /\ value # panel.period
  /\ panel.fetches < MaxFetches
  /\ panel' = Effect([panel EXCEPT !.period = value])
  /\ PanelFrame

\* The request of a fetch is answered: with a payload (setData, hasLoadedRef
\* true) or not (setError, hasLoadedRef false), then setLoading(false).
Respond(f, ok) ==
  /\ f \in panel.flights
  /\ panel' = [panel EXCEPT
       !.flights = @ \ {f},
       !.data = IF ok THEN f.period ELSE @,
       !.error = IF ok THEN @ ELSE TRUE,
       !.hasLoaded = ok,
       !.loading = FALSE]
  /\ PanelFrame

\* The page before the component is mounted.
PanelInit ==
  /\ IdleCollector
  /\ now = ArchiveNow
  /\ gym_history = {}
  /\ gym_team_changes = {}
  /\ historyAutoInc = 1
  /\ changesAutoInc = 1
  /\ retentionSeconds = DefaultRetention
  /\ fenced = Gyms
  /\ env = ValidEnv
  /\ call = NoCall
  /\ gate = NoGate
  /\ panel = NoPanel

PanelNext ==
  \/ Mount
  \/ IntervalFires
  \/ \E value \in PERIODS : SelectPeriod(value)
  \/ \E f \in panel.flights, ok \in BOOLEAN : Respond(f, ok)

PanelSpec == PanelInit /\ [][PanelNext]_vars

\* C30: when the component is not loading and shows a payload without an
\* error, the payload is the one of the selected period.
C30_ShownDataIsSelected ==
  (panel.mounted /\ ~panel.loading /\ ~panel.error /\ panel.data # NoData) =>
    panel.data = panel.period

====
